---------------------------- MODULE Spec2Model ----------------------------
(***************************************************************************)
(* Model of the multi-CURIE query (MCQ) answering pipeline of the Monarch  *)
(* TRAPI knowledge provider (package mmcq):                                *)
(*   build_trapi_message          (services/util/trapi.py)                 *)
(*   Question.transform_attributes, Question._construct_sources_tree,      *)
(*   Question.apply_attribute_constraints (services/util/question.py)      *)
(*   check_attributes and the operators (services/util/constraints.py)     *)
(*                                                                         *)
(* One behaviour is one query.  The similarity result (result_map) is      *)
(* consumed the way build_trapi_message iterates over it: one candidate    *)
(* at a time, and within a candidate one TermMatch at a time, each drawn   *)
(* from a small set.  A Python exception that leaves build_trapi_message   *)
(* (a KeyError) ends the behaviour in pc = "raised": no response exists.   *)
(***************************************************************************)
EXTENDS Integers, Sequences, FiniteSets, TLC

(***************************************************************************)
(* Bounds of the model.                                                    *)
(***************************************************************************)
\* TermMatch records consumed per query, over all candidates
MaxMatches == 3
\* the longest 'sources' list handed to _construct_sources_tree
MaxSources == 3
\* queries handled by one server process at the same time
MaxQueries == 2
\* edge ids one of those queries allocates for its response
MaxEdges == 3
\* the largest 'limit' a client sends (the smallest is -2)
MaxLimit == 52

(***************************************************************************)
(* Identifier universes.                                                   *)
(***************************************************************************)
SetId == "UUID:set"
\* the possible member_ids lists of the MCQ subject node
QueryTermLists == { <<"t1">>, <<"t1", "t2">> }
\* match_source values the similarity service may report
ObjectIds == {"t1", "t2"}
\* match_target values: a term of the candidate, possibly itself an input term
SubjectIds == {"m1", "t2"}
Scores == {1, 2}
SetInterpretations == {"MANY", "ALL"}

DEFAULT_PROVENANCE == "infores:monarchinitiative"
USER_INTERFACE == "infores:user-interface"
PRIMARY_KS == "infores:semsimian-kp"
INGEST_KS == "infores:hpo-annotations"
MATCH_PREDICATE == "biolink:has_phenotype"
QUERY_TERM_CATEGORY == "biolink:PhenotypicFeature"
CANDIDATE_CATEGORY == "biolink:Disease"
\* subject.provided_by "phenio_nodes" as rewritten by _map_source
PROVIDED_BY == "infores:upheno"

\* Python None, for the optional set-valued upstream_resource_ids and for
\* absent optional keys held as sequences
None == {}
Absent == <<>>

Range(s) == { s[i] : i \in DOMAIN s }

(***************************************************************************)
(* Edge-ID allocator: f"e{edge_idx:0>4}".  Identifiers are character       *)
(* sequences so that the formatting and the "sg-" prefix are computed.     *)
(***************************************************************************)
DigitChars == <<"0", "1", "2", "3", "4", "5", "6", "7", "8", "9">>

RECURSIVE Decimal(_)
Decimal(n) == IF n < 10 THEN << DigitChars[n + 1] >>
              ELSE Decimal(n \div 10) \o << DigitChars[(n % 10) + 1] >>

RECURSIVE PadLeft(_, _)
PadLeft(s, width) == IF Len(s) >= width THEN s ELSE PadLeft(<<"0">> \o s, width)

EdgeIdWidth == 4

\* variant: the counter is formatted modulo ten
format_edge_id_LastDigit(idx) == <<"e">> \o PadLeft(Decimal(idx % 10), EdgeIdWidth)

format_edge_id(idx) == <<"e">> \o PadLeft(Decimal(idx), EdgeIdWidth)

\* variant: the support graph named by the bare edge id
support_graph_id_NoPrefix(answer_edge_id) == answer_edge_id

\* f"sg-{answer_edge_id}"
support_graph_id(answer_edge_id) == <<"s", "g", "-">> \o answer_edge_id

(***************************************************************************)
(* get_categories: the Biolink ancestors of a most specific category.      *)
(***************************************************************************)
get_categories(category) ==
    IF category = "biolink:NamedThing" THEN << category >>
    ELSE << category, "biolink:NamedThing" >>

(***************************************************************************)
(* TermMatch records (TERM_DATA) as parse_raw_semsim emits them.           *)
(***************************************************************************)
TermMatches ==
    { [subject_id |-> s, object_id |-> o, score |-> sc, matched_term |-> s] :
        s \in SubjectIds, o \in ObjectIds, sc \in Scores }

VARIABLES
    pc,                           \* position of the query in the pipeline
    message,                      \* the message Question.answer returns
    set_interpretation,           \* result["set_interpretation"]
    query_terms,                  \* result["query_terms"]
    edge_idx,                     \* trapi.edge_idx (module level)
    node_map,                     \* build_trapi_message: node_map
    query_term_membership_edges,  \* term id -> member_of edge id
    trapi_response,               \* build_trapi_message: trapi_response
    primary_answer_term_id,       \* candidate being processed ("" when none)
    result_entry,                 \* its RESULT_ENTRY (without the matches)
    matches,                      \* its matches consumed so far, in order
    input_query_term_seen,        \* term id -> BOOLEAN
    query_term_match_cache,       \* subject_id -> cached match details
    cache_keys,                   \* insertion order of query_term_match_cache
    result_map_keys,              \* candidates consumed so far, in order
    candidate_log,                \* per consumed candidate: what the loop observed
    source_stubs,                 \* _construct_sources_tree: the 'sources' argument
    sources_tree,                 \* its return value (<< >> before the call)
    tasks,                        \* concurrent queries: task -> position and response ids
    request,                      \* the TRAPI Query posted to /query
    rpc,                          \* position of the request in reasoner_api
    outbound,                     \* bodies POSTed to the similarity service
    outcome,                      \* what the request handling produced so far
    query_log,                    \* LoggerWrapper.query_log: query id -> entries
    log_calls,                    \* the logging calls made so far, in order
    last_logs,                    \* what the latest get_logs call returned
    checked                       \* check_attributes: its arguments and its return value

assembly_vars ==
    << pc, message, set_interpretation, query_terms, node_map,
       query_term_membership_edges, trapi_response, primary_answer_term_id,
       result_entry, matches, input_query_term_seen, query_term_match_cache,
       cache_keys, result_map_keys, candidate_log >>
sources_vars == << source_stubs, sources_tree >>
request_vars == << request, rpc, outbound, outcome >>
logger_vars == << query_log, log_calls, last_logs >>
other_vars == << sources_vars, tasks, request_vars, logger_vars, checked >>

vars == << assembly_vars, edge_idx, other_vars >>


(***************************************************************************)
(* Attribute values carry their Python type: numbers, strings and lists    *)
(* are told apart by Operator.is_same_data_type.                           *)
(***************************************************************************)
Num(x) == [type |-> "number", v |-> x]
Str(x) == [type |-> "string", v |-> x]
List(x) == [type |-> "list", v |-> x]

\* an attribute; original_attribute_name is "" when the key is not given
AttrNamed(type_id, name, value) ==
    [attribute_type_id |-> type_id, original_attribute_name |-> name,
     value |-> value]
Attr(type_id, value) == AttrNamed(type_id, "", value)

AGGREGATE_SIMILARITY_SCORE == "semsimian:score"
MATCH_TERM_SCORE == "semsimian:object_best_matches.*.score"
MATCH_TERM == "semsimian:object_best_matches.*.similarity.ancestor_id"

Source(id, role) == [resource_id |-> id, resource_role |-> role]

(***************************************************************************)
(* The query graphs of the model: two query nodes, n0 the MCQ subject      *)
(* (the set node) and n1 the object, and one query edge.  A constraint is  *)
(* an AttributeConstraint {id, operator, value, not}.                      *)
(***************************************************************************)
Constraint(id, op, value, negated) ==
    [id |-> id, operator |-> op, value |-> value, negated |-> negated]

ScoreAbove1 == Constraint("biolink:score", ">", Num(1), FALSE)
NodeHasScore == Constraint("biolink:score", "==", Num(1), FALSE)
ScoreAbove2 == Constraint("biolink:score", ">", Num(2), FALSE)

QGraph(n0c, n1c, ekey, ec) ==
    [nodes |-> [n \in {"n0", "n1"} |->
                  [constraints |-> IF n = "n0" THEN n0c ELSE n1c]],
     edges |-> [e \in {ekey} |-> [attribute_constraints |-> ec]]]

QueryGraphs ==
    { QGraph(<<>>, <<>>, "e01", <<>>),
      QGraph(<<>>, << NodeHasScore >>, "e01", <<>>),
      QGraph(<<>>, <<>>, "e01", << ScoreAbove1 >>),
      QGraph(<<>>, <<>>, "e01", << ScoreAbove2 >>),
      QGraph(<<>>, <<>>, "e02", << ScoreAbove1 >>) }

\* build_trapi_message: the query node keys found by the loop over the query
\* nodes (n0 is the well-formed MCQ subject, n1 is not a set)
qnode_subject_key == "n0"
qnode_object_key == "n1"

EmptyResponse ==
    [knowledge_graph |-> [nodes |-> << >>, edges |-> << >>],
     auxiliary_graphs |-> << >>,
     results |-> << >>]

\* the parts of the state a specification does not exercise stay as they are
\* when the module is loaded and no request is being handled
SourcesIdle == source_stubs = << >> /\ sources_tree = << >>
TasksIdle == tasks = << >>
RequestIdle ==
    /\ request = << >>
    /\ rpc = "idle"
    /\ outbound = << >>
    /\ outcome = << >>

LoggerIdle ==
    /\ query_log = << >>
    /\ log_calls = << >>
    /\ last_logs = << >>
ConstraintsIdle == checked = << >>

Init ==
    /\ SourcesIdle /\ TasksIdle /\ RequestIdle /\ LoggerIdle /\ ConstraintsIdle
    /\ pc = "received"
    /\ message = << >>
    /\ set_interpretation \in SetInterpretations
    /\ query_terms \in QueryTermLists
    /\ edge_idx = 0
    /\ node_map = << >>
    /\ query_term_membership_edges = << >>
    /\ trapi_response = EmptyResponse
    /\ primary_answer_term_id = ""
    /\ result_entry = << >>
    /\ matches = << >>
    /\ input_query_term_seen = << >>
    /\ query_term_match_cache = << >>
    /\ cache_keys = << >>
    /\ result_map_keys = << >>
    /\ candidate_log = << >>

(***************************************************************************)
(* build_trapi_message, lines 480-600: the set node, one node and one      *)
(* member_of edge per query term.  The loop over query_terms is folded.    *)
(***************************************************************************)
SetNode ==
    [name |-> Absent, categories |-> get_categories(QUERY_TERM_CATEGORY),
     is_set |-> <<TRUE>>, members |-> query_terms,
     provided_by |-> << <<USER_INTERFACE>> >>]

MemberNode ==
    [name |-> Absent, categories |-> get_categories(QUERY_TERM_CATEGORY),
     is_set |-> <<FALSE>>, members |-> Absent,
     provided_by |-> << <<USER_INTERFACE>> >>]

MemberOfEdge(term_id) ==
    [subject |-> term_id,
     predicate |-> "biolink:member_of",
     object |-> SetId,
     sources |-> << Source(USER_INTERFACE, "primary_knowledge_source") >>,
     attributes |-> << Attr("biolink:agent_type", Str("manual_agent")),
                       Attr("biolink:knowledge_level", Str("knowledge_assertion")) >>]

\* state of the member loop after its first i iterations:
\* [nodes, edges, membership], the edge counter being idx0 + i
RECURSIVE MemberLoop(_, _)
MemberLoop(i, idx0) ==
    IF i = 0
    THEN [nodes |-> (SetId :> SetNode), edges |-> << >>, membership |-> << >>]
    ELSE LET prev == MemberLoop(i - 1, idx0)
             term_id == query_terms[i]
             member_edge_id == format_edge_id(idx0 + i)
         IN [nodes |-> (term_id :> MemberNode) @@ prev.nodes,
             edges |-> (member_edge_id :> MemberOfEdge(term_id)) @@ prev.edges,
             membership |-> (term_id :> member_edge_id) @@ prev.membership]

BeginAssembly ==
    /\ UNCHANGED other_vars
    /\ pc = "received"
    /\ LET done == MemberLoop(Len(query_terms), 0)   \* reset_edge_idx()
       IN /\ node_map' = done.nodes
          /\ query_term_membership_edges' = done.membership
          /\ trapi_response' =
                 [EmptyResponse EXCEPT !.knowledge_graph.edges = done.edges]
          /\ edge_idx' = Len(query_terms)
    /\ pc' = "candidates"
    /\ UNCHANGED << message, set_interpretation, query_terms,
                    primary_answer_term_id, result_entry, matches,
                    input_query_term_seen, query_term_match_cache, cache_keys,
                    result_map_keys, candidate_log >>

(***************************************************************************)
(* build_trapi_message, lines 602-625: the next entry of result_map.       *)
(* parse_raw_semsim sets "provided_by" only when the record carries one.   *)
(***************************************************************************)
\* result_map keeps the order of the similarity service's ranked records:
\* the keys in rank order and their (non-increasing) scores
CandidateOrder == << "c1", "c2" >>
CandidateScores == << 2, 1 >>

TotalMatches ==
    LET RECURSIVE Sum(_)
        Sum(i) == IF i = 0 THEN 0 ELSE candidate_log[i].n_matches + Sum(i - 1)
    IN Len(matches) + Sum(Len(candidate_log))

BeginCandidate ==
    /\ UNCHANGED other_vars
    /\ pc = "candidates"
    /\ Len(result_map_keys) < Len(CandidateOrder)
    /\ \E provided_by \in {Absent, << PROVIDED_BY >>} :
          result_entry' = [name |-> "candidate", category |-> CANDIDATE_CATEGORY,
                           score |-> CandidateScores[Len(result_map_keys) + 1],
                           provided_by |-> provided_by]
    /\ primary_answer_term_id' = CandidateOrder[Len(result_map_keys) + 1]
    /\ result_map_keys' = Append(result_map_keys, primary_answer_term_id')
    /\ matches' = << >>
    /\ input_query_term_seen' = [t \in Range(query_terms) |-> FALSE]
    /\ query_term_match_cache' = << >>
    /\ cache_keys' = << >>
    /\ pc' = "matching"
    /\ UNCHANGED << message, set_interpretation, query_terms, edge_idx, node_map,
                    query_term_membership_edges, trapi_response, candidate_log >>

\* lines 606-613: the shared 'sources' provenance block of the candidate
answer_sources ==
    << Source(PRIMARY_KS, "primary_knowledge_source"),
       Source(INGEST_KS, "supporting_data_source") >>
    \o (IF result_entry.provided_by # Absent
        THEN << Source(result_entry.provided_by[1], "supporting_data_source") >>
        ELSE << >>)

\* lines 749-780
MatchToInputEdge(term_data) ==
    [subject |-> term_data.subject_id,
     predicate |-> "biolink:similar_to",
     object |-> term_data.object_id,
     sources |-> answer_sources,
     attributes |-> << AttrNamed("biolink:score", MATCH_TERM_SCORE, Num(term_data.score)),
                       AttrNamed("biolink:match", MATCH_TERM, Str(term_data.matched_term)),
                       Attr("biolink:agent_type", Str("automated_agent")),
                       Attr("biolink:knowledge_level", Str("knowledge_assertion")) >>]

\* lines 831-870
MatchToCandidateEdge(term_data) ==
    [subject |-> primary_answer_term_id,
     predicate |-> MATCH_PREDICATE,
     object |-> term_data.subject_id,
     sources |-> << Source(INGEST_KS, "primary_knowledge_source") >>,
     attributes |-> << Attr("biolink:has_evidence", Str("ECO:0000304")),
                       Attr("biolink:agent_type", Str("automated_agent")),
                       Attr("biolink:knowledge_level", Str("knowledge_assertion")) >>]

\* line 639: a match on an already cached subject is ignored
IgnoreMatch(term_data) ==
    /\ term_data.subject_id \in DOMAIN query_term_match_cache
    /\ term_data.score < query_term_match_cache[term_data.subject_id].score

\* lines 634-652: the 'observed' flags after the match is taken
SeenAfter(term_data) ==
    LET s == term_data.subject_id
        o == term_data.object_id
        reset == IF s \in DOMAIN query_term_match_cache
                 THEN (query_term_match_cache[s].query_term :> FALSE)
                          @@ input_query_term_seen
                 ELSE input_query_term_seen
    IN IF o \in DOMAIN reset THEN (o :> TRUE) @@ reset ELSE reset

\* variant: the 'edges' of an overwritten cache entry are not reset (line 679)
CacheEntry_KeepEdges(term_data) ==
    LET s == term_data.subject_id
        e1 == format_edge_id(edge_idx + 1)
        e2 == format_edge_id(edge_idx + 2)
        cached == s \in DOMAIN query_term_match_cache
    IN [name |-> term_data.subject_id,
        category |-> QUERY_TERM_CATEGORY,
        query_term |-> term_data.object_id,
        score |-> term_data.score,
        primary_answer_term |-> primary_answer_term_id,
        edge_ids |-> (IF cached THEN query_term_match_cache[s].edge_ids ELSE << >>)
                        \o << e1, e2 >>,
        edges |-> (e1 :> MatchToInputEdge(term_data))
                      @@ (e2 :> MatchToCandidateEdge(term_data))
                      @@ (IF cached THEN query_term_match_cache[s].edges ELSE << >>)]

\* lines 655-659, 679-870: the cache entry written for the match
CacheEntry(term_data) ==
    LET e1 == format_edge_id(edge_idx + 1)
        e2 == format_edge_id(edge_idx + 2)
    IN [name |-> term_data.subject_id,
        category |-> QUERY_TERM_CATEGORY,
        query_term |-> term_data.object_id,
        score |-> term_data.score,
        primary_answer_term |-> primary_answer_term_id,
        edge_ids |-> << e1, e2 >>,
        edges |-> (e1 :> MatchToInputEdge(term_data))
                      @@ (e2 :> MatchToCandidateEdge(term_data))]

(***************************************************************************)
(* build_trapi_message, lines 629-870: one iteration of the loop over the  *)
(* candidate's matches.                                                    *)
(***************************************************************************)
ProcessMatch ==
    /\ UNCHANGED other_vars
    /\ pc = "matching"
    /\ TotalMatches < MaxMatches
    /\ \E term_data \in TermMatches :
        LET s == term_data.subject_id
            o == term_data.object_id
        IN /\ matches' = Append(matches, term_data)
           /\ IF IgnoreMatch(term_data)
              THEN UNCHANGED << pc, edge_idx, node_map, input_query_term_seen,
                                query_term_match_cache, cache_keys >>
              ELSE IF o \notin DOMAIN node_map
              THEN \* line 673: KeyError
                   /\ pc' = "raised"
                   /\ UNCHANGED << edge_idx, node_map, input_query_term_seen,
                                   query_term_match_cache, cache_keys >>
              ELSE /\ input_query_term_seen' = SeenAfter(term_data)
                   /\ query_term_match_cache' =
                          (s :> CacheEntry(term_data)) @@ query_term_match_cache
                   /\ cache_keys' = IF s \in DOMAIN query_term_match_cache
                                    THEN cache_keys ELSE Append(cache_keys, s)
                   /\ node_map' = IF node_map[o].name = Absent
                                  THEN [node_map EXCEPT ![o].name = << o >>]
                                  ELSE node_map
                   /\ edge_idx' = edge_idx + 2
                   /\ pc' = pc
    /\ UNCHANGED << message, set_interpretation, query_terms,
                    query_term_membership_edges, trapi_response,
                    primary_answer_term_id, result_entry, result_map_keys,
                    candidate_log >>

(***************************************************************************)
(* build_trapi_message, lines 872-1046: the end of a candidate's iteration.*)
(***************************************************************************)
\* variant: any() in place of all()
AllSeen_Any == \E t \in DOMAIN input_query_term_seen : input_query_term_seen[t]

\* line 872: all(input_query_term_seen.values())
AllSeen == \A t \in DOMAIN input_query_term_seen : input_query_term_seen[t]

\* variants: the set-interpretation filter never applied, and applied
\* whatever the set interpretation
SkipCandidate_Never == FALSE
SkipCandidate_AnyInterpretation ==
    \E t \in DOMAIN input_query_term_seen : ~input_query_term_seen[t]

SkipCandidate == set_interpretation = "ALL" /\ ~AllSeen

\* lines 893-900
CandidateNode ==
    [name |-> << result_entry.name >>,
     categories |-> get_categories(result_entry.category),
     is_set |-> <<FALSE>>, members |-> Absent,
     provided_by |-> << result_entry.provided_by[1] >>]

\* lines 1015-1020
MatchNode(details) ==
    [name |-> << details.name >>,
     categories |-> get_categories(details.category),
     is_set |-> Absent, members |-> Absent, provided_by |-> Absent]

\* lines 979-1007
AnswerEdge(answer_edge_id) ==
    [subject |-> primary_answer_term_id,
     predicate |-> "biolink:similar_to",
     object |-> SetId,
     sources |-> answer_sources,
     attributes |-> << AttrNamed("biolink:score", AGGREGATE_SIMILARITY_SCORE,
                                 Num(result_entry.score)),
                       Attr("biolink:support_graphs",
                            List(<< support_graph_id(answer_edge_id) >>)),
                       Attr("biolink:agent_type", Str("automated_agent")),
                       Attr("biolink:knowledge_level", Str("knowledge_assertion")) >>]

\* lines 1014-1031: the edge list of the support graph, in cache order
RECURSIVE SupportGraphEdges(_)
SupportGraphEdges(keys) ==
    IF keys = << >> THEN << >>
    ELSE LET details == query_term_match_cache[keys[Len(keys)]]
         IN SupportGraphEdges(SubSeq(keys, 1, Len(keys) - 1))
              \o details.edge_ids
              \o << query_term_membership_edges[details.query_term] >>

\* variant: the cached edges are listed but not stored
CachedEdges_Omitted(keys) == << >>

\* lines 1024-1025: the cached edges, merged over all cache entries
RECURSIVE CachedEdges(_)
CachedEdges(keys) ==
    IF keys = << >> THEN << >>
    ELSE query_term_match_cache[keys[Len(keys)]].edges
           @@ CachedEdges(SubSeq(keys, 1, Len(keys) - 1))

\* variant: no nodes are made for the matched terms
MatchNodes_Omitted == << >>

\* lines 1015-1020: nodes for the matched terms not yet in node_map
MatchNodes ==
    [s \in (Range(cache_keys) \ DOMAIN node_map) |->
        MatchNode(query_term_match_cache[s])]

\* lines 1034-1045
ResultsEntry(answer_edge_id) ==
    [node_bindings |->
        (qnode_object_key :> << [id |-> primary_answer_term_id] >>)
            @@ (qnode_subject_key :> << [id |-> SetId] >>),
     analyses |-> << [resource_id |-> DEFAULT_PROVENANCE,
                      edge_bindings |->
                          ("e01" :> << [id |-> answer_edge_id] >>)] >>]

\* what the loop observed for the candidate it has just finished
LogEntry(emitted, idx_to) ==
    [id |-> primary_answer_term_id,
     n_matches |-> Len(matches),
     all_seen |-> AllSeen,
     emitted |-> emitted,
     cached_terms |-> { query_term_match_cache[s].query_term : s \in Range(cache_keys) },
     n_cached |-> Len(cache_keys),
     idx_from |-> IF candidate_log = << >> THEN Len(query_terms)
                  ELSE candidate_log[Len(candidate_log)].idx_to,
     idx_to |-> idx_to]

\* line 899 and line 1031: the KeyErrors of the emission
EmissionRaises ==
    \/ /\ primary_answer_term_id \notin DOMAIN node_map
       /\ result_entry.provided_by = Absent
    \/ \E s \in Range(cache_keys) :
          query_term_match_cache[s].query_term \notin DOMAIN query_term_membership_edges

EmitCandidate ==
    LET answer_edge_id == format_edge_id(edge_idx + 1)
        sg == support_graph_id(answer_edge_id)
    IN /\ node_map' = node_map
                        @@ (IF primary_answer_term_id \in DOMAIN node_map THEN << >>
                            ELSE (primary_answer_term_id :> CandidateNode))
                        @@ MatchNodes
       /\ edge_idx' = edge_idx + 1
       /\ trapi_response' =
            [trapi_response EXCEPT
               !.knowledge_graph.edges =
                    CachedEdges(cache_keys)
                      @@ (answer_edge_id :> AnswerEdge(answer_edge_id)) @@ @,
               !.auxiliary_graphs =
                    (sg :> [edges |-> SupportGraphEdges(cache_keys)]) @@ @,
               !.results = Append(@, ResultsEntry(answer_edge_id))]
       /\ candidate_log' = Append(candidate_log, LogEntry(TRUE, edge_idx + 1))

EndCandidate ==
    /\ UNCHANGED other_vars
    /\ pc = "matching"
    /\ IF SkipCandidate
       THEN \* line 875: continue
            /\ candidate_log' = Append(candidate_log, LogEntry(FALSE, edge_idx))
            /\ pc' = "candidates"
            /\ UNCHANGED << node_map, edge_idx, trapi_response >>
       ELSE IF EmissionRaises
       THEN /\ pc' = "raised"
            /\ UNCHANGED << node_map, edge_idx, trapi_response, candidate_log >>
       ELSE /\ EmitCandidate
            /\ pc' = "candidates"
    /\ UNCHANGED << message, set_interpretation, query_terms,
                    query_term_membership_edges, primary_answer_term_id,
                    result_entry, matches, input_query_term_seen,
                    query_term_match_cache, cache_keys, result_map_keys >>

(***************************************************************************)
(* build_trapi_message, lines 1049-1054: result_map is exhausted; the      *)
(* nodes are copied into the response, which is returned.                  *)
(***************************************************************************)
FinishAssembly ==
    /\ UNCHANGED other_vars
    /\ pc = "candidates"
    /\ trapi_response' = [trapi_response EXCEPT !.knowledge_graph.nodes = node_map]
    /\ pc' = "assembled"
    /\ UNCHANGED << message, set_interpretation, query_terms, edge_idx, node_map,
                    query_term_membership_edges, primary_answer_term_id,
                    result_entry, matches, input_query_term_seen,
                    query_term_match_cache, cache_keys, result_map_keys,
                    candidate_log >>

(***************************************************************************)
(* Question._construct_sources_tree (question.py, lines 100-188).          *)
(***************************************************************************)
\* str.lstrip("biolink:") on the roles that occur: it strips leading
\* characters out of {b, i, o, l, n, k, :}
lstrip_biolink(role) ==
    CASE role = "biolink:primary_knowledge_source" -> "primary_knowledge_source"
      [] role = "biolink:aggregator_knowledge_source" -> "aggregator_knowledge_source"
      [] role = "biolink:supporting_data_source" -> "supporting_data_source"
      [] OTHER -> role

\* lines 130-155: the stubs that have both values, their roles stripped
ValidSources(sources) ==
    LET valid == SelectSeq(sources,
                     LAMBDA src : src.resource_id # "" /\ src.resource_role # "")
    IN [i \in DOMAIN valid |->
          [valid[i] EXCEPT !.resource_role = lstrip_biolink(@)]]

\* resource_ids_with_resource_role.get(role): the ids seen under a role
IdsOfRole(stubs, role) ==
    { stubs[i].resource_id : i \in { j \in DOMAIN stubs : stubs[j].resource_role = role } }

\* the distinct (role, id) pairs: roles in order of first appearance (dict
\* order), the ids of one role in order of first appearance (one of the
\* orders the set iteration may take)
RECURSIVE FirstAppearances(_)
FirstAppearances(stubs) ==
    IF stubs = << >> THEN << >>
    ELSE LET front == FirstAppearances(SubSeq(stubs, 1, Len(stubs) - 1))
             last == stubs[Len(stubs)]
         IN IF \E i \in DOMAIN front :
                   /\ front[i].resource_role = last.resource_role
                   /\ front[i].resource_id = last.resource_id
            THEN front ELSE Append(front, last)

RECURSIVE RoleOrder(_)
RoleOrder(stubs) ==
    IF stubs = << >> THEN << >>
    ELSE LET front == RoleOrder(SubSeq(stubs, 1, Len(stubs) - 1))
             role == stubs[Len(stubs)].resource_role
         IN IF role \in Range(front) THEN front ELSE Append(front, role)

\* variant: every role is given the supporting data sources as upstreams
UpstreamsOf_Flat(stubs, role) == IdsOfRole(stubs, "supporting_data_source")

\* lines 159-164
UpstreamsOf(stubs, role) ==
    CASE role = "aggregator_knowledge_source" -> IdsOfRole(stubs, "primary_knowledge_source")
      [] role = "primary_knowledge_source" -> IdsOfRole(stubs, "supporting_data_source")
      [] OTHER -> None

FormattedSource(id, role, upstreams) ==
    [resource_id |-> id, resource_role |-> role,
     source_record_urls |-> None, upstream_resource_ids |-> upstreams]

\* lines 157-174
RECURSIVE FormattedSources(_, _)
FormattedSources(stubs, roles) ==
    IF roles = << >> THEN << >>
    ELSE LET role == roles[Len(roles)]
             mine == FirstAppearances(
                        SelectSeq(stubs, LAMBDA src : src.resource_role = role))
         IN FormattedSources(stubs, SubSeq(roles, 1, Len(roles) - 1))
              \o [i \in DOMAIN mine |->
                    FormattedSource(mine[i].resource_id, role, UpstreamsOf(stubs, role))]

\* lines 176-186: the system's own aggregator entry
TopLevelSource(stubs) ==
    LET agg == IdsOfRole(stubs, "aggregator_knowledge_source")
        prim == IdsOfRole(stubs, "primary_knowledge_source")
        supp == IdsOfRole(stubs, "supporting_data_source")
    IN FormattedSource(DEFAULT_PROVENANCE, "aggregator_knowledge_source",
                       IF agg # {} THEN agg ELSE IF prim # {} THEN prim ELSE supp)

\* variant: the system's own aggregator entry is not appended
construct_sources_tree_NoSystemEntry(sources) ==
    LET stubs == ValidSources(sources)
    IN FormattedSources(stubs, RoleOrder(stubs))

construct_sources_tree(sources) ==
    IF sources = << >>
    THEN << FormattedSource(DEFAULT_PROVENANCE, "aggregator_knowledge_source", None) >>
    ELSE LET stubs == ValidSources(sources)
         IN Append(FormattedSources(stubs, RoleOrder(stubs)), TopLevelSource(stubs))

(***************************************************************************)
(* Question.format_attribute_trapi and Question.transform_attributes       *)
(* (question.py, lines 190-260).                                           *)
(***************************************************************************)
\* attribute names dropped by the mapper: skip_attr.json
skip_list == {"equivalent_identifiers", "id", "name"}

\* 'qualifie' in original_attribute_name, on the names that occur
is_qualifier_name(name) == name \in {"qualified_predicate", "object_aspect_qualifier"}

\* lines 216-223: the attributes that are neither core properties, skipped
\* names nor qualifiers
KeptAttributes(props) ==
    SelectSeq(props.attributes,
        LAMBDA attrib :
            \/ attrib.original_attribute_name = ""
            \/ /\ attrib.original_attribute_name \notin DOMAIN props
               /\ attrib.original_attribute_name \notin skip_list
               /\ ~is_qualifier_name(attrib.original_attribute_name))

\* node=True: props.get('attributes', []) of a node the assembler made is []
FormatNode(props) ==
    [f \in (DOMAIN props) \cup {"attributes"} |->
        IF f = "attributes" THEN << >> ELSE props[f]]

\* node=False
FormatEdge(props) ==
    [props EXCEPT !.sources = construct_sources_tree(@),
                  !.attributes = KeptAttributes(props)]

transform_attributes(response) ==
    [knowledge_graph |->
        [nodes |-> [n \in DOMAIN response.knowledge_graph.nodes |->
                        FormatNode(response.knowledge_graph.nodes[n])],
         edges |-> [e \in DOMAIN response.knowledge_graph.edges |->
                        FormatEdge(response.knowledge_graph.edges[e])]],
     auxiliary_graphs |-> response.auxiliary_graphs,
     results |-> [i \in DOMAIN response.results |->
                    [response.results[i] EXCEPT !.analyses =
                        [a \in DOMAIN @ |-> [@[a] EXCEPT !.resource_id = DEFAULT_PROVENANCE]]]]]

(***************************************************************************)
(* Question.answer, line 285: the mapper rewrites the response in place    *)
(* and the question is updated with it (the question then shares the       *)
(* response's knowledge_graph, auxiliary_graphs and results).              *)
(***************************************************************************)
TransformAttributes ==
    /\ UNCHANGED other_vars
    /\ pc = "assembled"
    /\ trapi_response' = transform_attributes(trapi_response)
    /\ pc' = "mapped"
    /\ UNCHANGED << message, set_interpretation, query_terms, edge_idx, node_map,
                    query_term_membership_edges,
                    primary_answer_term_id, result_entry, matches,
                    input_query_term_seen, query_term_match_cache, cache_keys,
                    result_map_keys, candidate_log >>

(***************************************************************************)
(* constraints.py: the operators, check_attribute_constraint and           *)
(* check_attributes.  a is the constraint's value, b the attribute's.      *)
(***************************************************************************)
is_same_data_type(a, b) == a.type = b.type

\* any(x in a for x in b)
AnyIn(a, b) == \E i \in DOMAIN b.v : b.v[i] \in Range(a.v)

EqualToOperator(a, b) ==
    /\ is_same_data_type(a, b)
    /\ IF a.type = "list" THEN AnyIn(a, b) ELSE a.v = b.v

DeepEqualToOperator(a, b) == is_same_data_type(a, b) /\ a.v = b.v

GreaterThanOperator(a, b) == is_same_data_type(a, b) /\ a.v > b.v

LessThanOperator(a, b) == is_same_data_type(a, b) /\ a.v < b.v

operator_map(op, a, b) ==
    CASE op = "==" -> EqualToOperator(a, b)
      [] op = "===" -> DeepEqualToOperator(a, b)
      [] op = ">" -> GreaterThanOperator(a, b)
      [] op = "<" -> LessThanOperator(a, b)

check_attribute_constraint(attribute_constraint, db_value) ==
    LET result == operator_map(attribute_constraint.operator,
                               attribute_constraint.value, db_value)
    IN IF attribute_constraint.negated THEN ~result ELSE result

\* variant: a constraint no attribute carries the id of is passed over
check_attributes_Vacuous(attribute_constraints, db_attributes) ==
    \A c \in DOMAIN attribute_constraints :
        \A i \in DOMAIN db_attributes :
            db_attributes[i].attribute_type_id = attribute_constraints[c].id
                => check_attribute_constraint(attribute_constraints[c],
                                              db_attributes[i].value)

check_attributes(attribute_constraints, db_attributes) ==
    \A c \in DOMAIN attribute_constraints :
        LET constraint == attribute_constraints[c]
            applied == { i \in DOMAIN db_attributes :
                           db_attributes[i].attribute_type_id = constraint.id }
        IN /\ applied # {}
           /\ \A i \in applied :
                 check_attribute_constraint(constraint, db_attributes[i].value)

(***************************************************************************)
(* Question.apply_attribute_constraints (question.py, lines 290-386).      *)
(***************************************************************************)
\* iteration order of query_graph.nodes
QNodeOrder == << "n0", "n1" >>

\* lines 294-302
node_constraints(msg) ==
    LET q_nodes == msg["query_graph"].nodes
    IN [q \in { q \in DOMAIN q_nodes : q_nodes[q].constraints # << >> } |->
          q_nodes[q].constraints]

edge_constraints(msg) ==
    LET q_edges == msg["query_graph"].edges
    IN [q \in { q \in DOMAIN q_edges : q_edges[q].attribute_constraints # << >> } |->
          q_edges[q].attribute_constraints]

BoundIds(binding) == { binding[j].id : j \in DOMAIN binding }

\* lines 309-312: kg node id -> the constraints of the query node it was
\* bound to last
constrained_node_ids(msg) ==
    LET nc == node_constraints(msg)
        results == msg["results"]
        visits == { <<i, k>> \in (DOMAIN results) \X (DOMAIN QNodeOrder) :
                       QNodeOrder[k] \in DOMAIN nc }
        bound(x) == { p \in visits :
                        x \in BoundIds(results[p[1]].node_bindings[QNodeOrder[p[2]]]) }
        last(x) == CHOOSE p \in bound(x) :
                      \A q \in bound(x) :
                          q[1] < p[1] \/ (q[1] = p[1] /\ q[2] <= p[2])
        ids == UNION { BoundIds(results[p[1]].node_bindings[QNodeOrder[p[2]]]) :
                         p \in visits }
    IN [x \in ids |-> nc[QNodeOrder[last(x)[2]]]]

\* lines 313-316: kg edge id -> the constraints of the query edge it is
\* bound to in some analysis
constrained_edge_ids(msg) ==
    LET ec == edge_constraints(msg)
        results == msg["results"]
        bound(q) == UNION { BoundIds(results[i].analyses[a].edge_bindings[q]) :
                              <<i, a>> \in { <<i, a>> \in
                                   UNION { {i} \X DOMAIN results[i].analyses : i \in DOMAIN results } :
                                   q \in DOMAIN results[i].analyses[a].edge_bindings } }
        ids == UNION { bound(q) : q \in DOMAIN ec }
    IN [e \in ids |-> ec[CHOOSE q \in DOMAIN ec : e \in bound(q)]]

\* lines 318-324
nodes_to_filter(msg) ==
    LET constrained == constrained_node_ids(msg)
    IN { node_id \in DOMAIN constrained :
           ~check_attributes(constrained[node_id],
                             msg["knowledge_graph"].nodes[node_id].attributes) }

\* variant: only the edges of removed nodes are marked
edges_to_filter_NodesOnly(msg) ==
    LET edges == msg["knowledge_graph"].edges
        gone == nodes_to_filter(msg)
    IN { edge_id \in DOMAIN edges :
           edges[edge_id].subject \in gone \/ edges[edge_id].object \in gone }

\* lines 326-337
edges_to_filter(msg) ==
    LET constrained == constrained_edge_ids(msg)
        edges == msg["knowledge_graph"].edges
        gone == nodes_to_filter(msg)
    IN { edge_id \in DOMAIN edges :
           \/ edges[edge_id].subject \in gone
           \/ edges[edge_id].object \in gone
           \/ /\ edge_id \in DOMAIN constrained
              /\ ~check_attributes(constrained[edge_id], edges[edge_id].attributes) }

\* variant: the bindings are left as they are
FilterBinding_Keep(binding, gone) == binding

\* lines 352 and 363: one binding list without the removed ids
FilterBinding(binding, gone) == SelectSeq(binding, LAMBDA x : x.id \notin gone)

\* lines 348-377: the bindings of one result after the filter, and whether
\* the result is kept
FilteredResult(result, gone_nodes, gone_edges) ==
    LET nb == [q \in DOMAIN result.node_bindings |->
                  FilterBinding(result.node_bindings[q], gone_nodes)]
        an == [a \in DOMAIN result.analyses |->
                  [result.analyses[a] EXCEPT !.edge_bindings =
                      [q \in DOMAIN @ |-> FilterBinding(@[q], gone_edges)]]]
    IN [keep |-> /\ \A q \in DOMAIN nb : nb[q] # << >>
                 /\ \A a \in DOMAIN an :
                       \A q \in DOMAIN an[a].edge_bindings :
                           an[a].edge_bindings[q] # << >>,
        entry |-> [node_bindings |-> nb, analyses |-> an]]

RECURSIVE filtered_bindings(_, _, _)
filtered_bindings(results, gone_nodes, gone_edges) ==
    IF results = << >> THEN << >>
    ELSE LET front == filtered_bindings(SubSeq(results, 1, Len(results) - 1),
                                        gone_nodes, gone_edges)
             r == FilteredResult(results[Len(results)], gone_nodes, gone_edges)
         IN IF r.keep THEN Append(front, r.entry) ELSE front

apply_attribute_constraints(msg) ==
    IF DOMAIN node_constraints(msg) = {} /\ DOMAIN edge_constraints(msg) = {}
    THEN msg   \* line 305
    ELSE LET gone_nodes == nodes_to_filter(msg)
             gone_edges == edges_to_filter(msg)
             kg == msg["knowledge_graph"]
         IN [k \in {"query_graph", "knowledge_graph", "results"} |->
               CASE k = "query_graph" -> msg["query_graph"]
                 [] k = "knowledge_graph" ->
                       [nodes |-> [n \in (DOMAIN kg.nodes) \ gone_nodes |-> kg.nodes[n]],
                        edges |-> [e \in (DOMAIN kg.edges) \ gone_edges |-> kg.edges[e]]]
                 [] OTHER -> filtered_bindings(msg["results"], gone_nodes, gone_edges)]

(***************************************************************************)
(* Question.answer, lines 286-288: the constraints of the request's query  *)
(* graph are applied to the updated question, and the outcome is returned. *)
(* No earlier step reads the constraints, so the query graph is drawn      *)
(* here.                                                                   *)
(***************************************************************************)
\* self._question_json after the update of line 285
QuestionJson(qg) ==
    [k \in {"query_graph", "knowledge_graph", "auxiliary_graphs", "results"} |->
        CASE k = "query_graph" -> qg
          [] k = "knowledge_graph" -> trapi_response.knowledge_graph
          [] k = "auxiliary_graphs" -> trapi_response.auxiliary_graphs
          [] OTHER -> trapi_response.results]

ApplyAttributeConstraints ==
    /\ UNCHANGED other_vars
    /\ pc = "mapped"
    /\ \E qg \in QueryGraphs :
          message' = apply_attribute_constraints(QuestionJson(qg))
    /\ pc' = "done"
    /\ UNCHANGED << set_interpretation, query_terms, edge_idx, node_map,
                    query_term_membership_edges, trapi_response,
                    primary_answer_term_id, result_entry, matches,
                    input_query_term_seen, query_term_match_cache, cache_keys,
                    result_map_keys, candidate_log >>

Next ==
    \/ BeginAssembly
    \/ BeginCandidate
    \/ ProcessMatch
    \/ EndCandidate
    \/ FinishAssembly
    \/ TransformAttributes
    \/ ApplyAttributeConstraints

Spec == Init /\ [][Next]_vars

(***************************************************************************)
(* Outside a query nothing of build_trapi_message exists; the module-level *)
(* counter holds its import-time value.                                    *)
(***************************************************************************)
AssemblyIdle ==
    /\ pc = "idle"
    /\ message = << >>
    /\ set_interpretation = "MANY"
    /\ query_terms = << >>
    /\ node_map = << >>
    /\ query_term_membership_edges = << >>
    /\ trapi_response = EmptyResponse
    /\ primary_answer_term_id = ""
    /\ result_entry = << >>
    /\ matches = << >>
    /\ input_query_term_seen = << >>
    /\ query_term_match_cache = << >>
    /\ cache_keys = << >>
    /\ result_map_keys = << >>
    /\ candidate_log = << >>

SeqsUpTo(S, n) == UNION { [1..k -> S] : k \in 0..n }

(***************************************************************************)
(* Question._construct_sources_tree called on its own, as the unit test    *)
(* does: any list of at most MaxSources source stubs.  A stub whose id or  *)
(* role is missing or empty carries "" there.                              *)
(***************************************************************************)
SourceRoles ==
    { "aggregator_knowledge_source", "primary_knowledge_source",
      "supporting_data_source", "biolink:primary_knowledge_source" }
SourceIds == { "infores:semsimian-kp", "infores:hpo-annotations" }
SourceStubs ==
    { Source(id, role) : id \in SourceIds, role \in SourceRoles }
      \cup { Source("", "primary_knowledge_source"),
             Source("infores:hpo-annotations", "") }

SourcesInit ==
    /\ AssemblyIdle /\ edge_idx = 0 /\ TasksIdle /\ RequestIdle
    /\ LoggerIdle /\ ConstraintsIdle
    /\ source_stubs \in SeqsUpTo(SourceStubs, MaxSources)
    /\ sources_tree = << >>

ConstructSourcesTree ==
    /\ sources_tree = << >>
    /\ sources_tree' = construct_sources_tree(source_stubs)
    /\ UNCHANGED << assembly_vars, edge_idx, source_stubs, tasks, request_vars,
                   logger_vars, checked >>

SourcesNext == ConstructSourcesTree

SourcesSpec == SourcesInit /\ [][SourcesNext]_vars

(***************************************************************************)
(* Several queries in one server process.  reasoner_api and                *)
(* Question.answer are coroutines on one event loop: a query runs until it *)
(* awaits the similarity call, and the code after the await                *)
(* (build_trapi_message and the rest of answer) holds no await, so it runs *)
(* to its return before the loop resumes any other query.  trapi.edge_idx  *)
(* is the one module-level counter they all use.                           *)
(***************************************************************************)
Queries == 1..MaxQueries

\* the loop runs a query's code only when no other query is inside the
\* stretch between the resumption and the return
LoopIsFree == \A q \in Queries : tasks[q].pc # "assembling"

\* variant: the counter is left as the previous query set it
reset_edge_idx_Skipped == edge_idx

\* trapi.py lines 25-27: the value reset_edge_idx gives the counter
reset_edge_idx == 0

ConcurrentInit ==
    /\ AssemblyIdle /\ edge_idx = 0 /\ SourcesIdle /\ RequestIdle
    /\ LoggerIdle /\ ConstraintsIdle
    /\ tasks = [q \in Queries |-> [pc |-> "new", want |-> 0, ids |-> << >>]]

\* answer up to 'await monarch_interface.run_query(...)'
RunQuery(q) ==
    /\ tasks[q].pc = "new"
    /\ LoopIsFree
    /\ tasks' = [tasks EXCEPT ![q].pc = "awaiting"]
    /\ UNCHANGED << assembly_vars, edge_idx, sources_vars, request_vars,
                   logger_vars, checked >>

\* the similarity call returns; build_trapi_message starts and reaches
\* reset_edge_idx() at line 501.  The result decides how many edges follow.
SimilarityReturns(q) ==
    /\ tasks[q].pc = "awaiting"
    /\ LoopIsFree
    /\ \E want \in 1..MaxEdges :
          tasks' = [tasks EXCEPT ![q] = [pc |-> "assembling", want |-> want, ids |-> << >>]]
    /\ edge_idx' = reset_edge_idx
    /\ UNCHANGED << assembly_vars, sources_vars, request_vars,
                   logger_vars, checked >>

\* one next_edge_id() call of the running assembly
NextEdgeId(q) ==
    /\ tasks[q].pc = "assembling"
    /\ Len(tasks[q].ids) < tasks[q].want
    /\ edge_idx' = edge_idx + 1
    /\ tasks' = [tasks EXCEPT ![q].ids = Append(@, format_edge_id(edge_idx'))]
    /\ UNCHANGED << assembly_vars, sources_vars, request_vars,
                   logger_vars, checked >>

\* build_trapi_message and answer return
ReturnResponse(q) ==
    /\ tasks[q].pc = "assembling"
    /\ Len(tasks[q].ids) = tasks[q].want
    /\ tasks' = [tasks EXCEPT ![q].pc = "done"]
    /\ UNCHANGED << assembly_vars, edge_idx, sources_vars, request_vars,
                   logger_vars, checked >>

ConcurrentNext ==
    \E q \in Queries :
        \/ RunQuery(q)
        \/ SimilarityReturns(q)
        \/ NextEdgeId(q)
        \/ ReturnResponse(q)

ConcurrentSpec == ConcurrentInit /\ [][ConcurrentNext]_vars

(***************************************************************************)
(* LoggerWrapper (logutil.py): the logging methods capture the message     *)
(* under the query id they are given, get_logs reads the captured entries. *)
(* The timestamp of an entry is left out; a message is a string, which     *)
(* str() in get_logs leaves as it is.                                      *)
(***************************************************************************)
MaxLogCalls == 3

NoQueryId == ""                       \* query_id=None, the default
QueryIds == { "u1", "u2" }
UnknownQueryId == "u3"                \* an id nothing is ever logged under
\* the text of the n-th call
MessageOf(n) == << "m1", "m2", "m3", "m4", "m5" >>[((n - 1) % 5) + 1]

\* the members of LogLevelEnum
LogLevelEnum == { "debug", "info", "warning", "error" }

log_entry(level, msg) == [level |-> level, message |-> msg]

process_Shared(log, msg, query_id, level) ==
    IF query_id = NoQueryId
    THEN log
    ELSE [u \in DOMAIN log \cup { query_id } |->
            IF u \in DOMAIN log
            THEN Append(log[u], log_entry(level, msg))
            ELSE << log_entry(level, msg) >>]

\* process, lines 29-41: the new value of query_log
process(log, msg, query_id, level) ==
    IF query_id = NoQueryId
    THEN log
    ELSE [u \in DOMAIN log \cup { query_id } |->
            IF u # query_id
            THEN log[u]
            ELSE IF u \in DOMAIN log
                 THEN Append(log[u], log_entry(level, msg))
                 ELSE << log_entry(level, msg) >>]

\* get_logs, lines 47-54
get_logs(log, query_id) ==
    IF query_id \in DOMAIN log
    THEN [i \in 1..Len(log[query_id]) |->
            [level |-> log[query_id][i].level,
             message |-> log[query_id][i].message]]
    ELSE << >>

LoggerInit ==
    /\ AssemblyIdle /\ edge_idx = 0 /\ SourcesIdle /\ TasksIdle /\ RequestIdle
    /\ ConstraintsIdle
    /\ query_log = << >>
    /\ log_calls = << >>
    /\ last_logs = << >>

\* one call of a logging method: the level it sets, then process
LogCall(method, level, query_id) ==
    /\ Len(log_calls) < MaxLogCalls
    /\ LET msg == MessageOf(Len(log_calls) + 1)
       IN /\ query_log' = process(query_log, msg, query_id, level)
          /\ log_calls' = Append(log_calls,
                [method |-> method, query_id |-> query_id, message |-> msg])
    /\ UNCHANGED << assembly_vars, edge_idx, sources_vars, tasks, request_vars,
                   last_logs, checked >>

debug(query_id) == LogCall("debug", "debug", query_id)

info(query_id) == LogCall("info", "info", query_id)

warning(query_id) == LogCall("warning", "warning", query_id)

error(query_id) == LogCall("error", "error", query_id)

\* LogLevelEnum has no 'critical': the entry is given the level 'error'
critical(query_id) == LogCall("critical", "error", query_id)

GetLogs(query_id) ==
    /\ last_logs' = << [query_id |-> query_id,
                        logs |-> get_logs(query_log, query_id),
                        at |-> Len(log_calls)] >>
    /\ UNCHANGED << assembly_vars, edge_idx, sources_vars, tasks, request_vars,
                   query_log, log_calls, checked >>

LoggerNext ==
    \/ \E query_id \in QueryIds \cup { NoQueryId } :
          \/ debug(query_id)
          \/ info(query_id)
          \/ warning(query_id)
          \/ error(query_id)
          \/ critical(query_id)
    \/ \E query_id \in QueryIds \cup { UnknownQueryId } : GetLogs(query_id)

LoggerSpec == LoggerInit /\ [][LoggerNext]_vars

(***************************************************************************)
(* check_attributes (constraints.py) called on its own: any list of at     *)
(* most MaxConstraints constraints against any list of at most             *)
(* MaxAttributes attributes.                                               *)
(***************************************************************************)
MaxConstraints == 2
MaxAttributes == 2

ConstraintIds == { "biolink:score", "biolink:p_value" }
AttributeConstraints ==
    { Constraint(id, op, Num(2), negated) :
        id \in ConstraintIds, op \in { ">", "<" }, negated \in BOOLEAN }
DbAttributes ==
    { Attr(id, value) :
        id \in ConstraintIds, value \in { Num(1), Num(2), Num(3), Str("high") } }

ConstraintInit ==
    /\ AssemblyIdle /\ edge_idx = 0 /\ SourcesIdle /\ TasksIdle /\ RequestIdle
    /\ LoggerIdle
    /\ checked \in [attribute_constraints : SeqsUpTo(AttributeConstraints, MaxConstraints),
                    db_attributes : SeqsUpTo(DbAttributes, MaxAttributes),
                    returned : { << >> }]

CheckAttributes ==
    /\ checked.returned = << >>
    /\ checked' = [checked EXCEPT !.returned =
            << check_attributes(checked.attribute_constraints,
                                checked.db_attributes) >>]
    /\ UNCHANGED << assembly_vars, edge_idx, sources_vars, tasks, request_vars,
                   logger_vars >>

ConstraintSpec == ConstraintInit /\ [][CheckAttributes]_vars

(***************************************************************************)
(* A TRAPI Query posted to /query.  request_json is request.dict(): every  *)
(* field of a query node is present, null when the client left it out.     *)
(***************************************************************************)
Null == [kind |-> "null"]
Val(x) == [kind |-> "value", v |-> x]

QNodeIds ==
    { Null, Val(<< >>), Val(<< "UUID:set" >>), Val(<< "uuid:set" >>),
      Val(<< "HP:0002104" >>), Val(<< "UUID:set", "UUID:other" >>) }

\* the query nodes a client may give as n0
SubjectQNodes ==
    [is_set : BOOLEAN,
     set_interpretation : { Null, Val("MANY"), Val("ALL"), Val("BATCH") },
     ids : QNodeIds,
     member_ids : { Null, Val(<< >>), Val(<< "t1", "t2" >>) },
     categories : { Null, Val(<< >>), Val(<< QUERY_TERM_CATEGORY >>) }]

\* and as n1: a plain node, bound to a disease or unbound
ObjectQNodes ==
    [is_set : {FALSE},
     set_interpretation : { Null },
     ids : { Null, Val(<< "MONDO:0007947" >>) },
     member_ids : { Null },
     categories : { Val(<< CANDIDATE_CATEGORY >>) }]

\* the single query edge: between the two nodes, to a node that is not
\* there, or with neither end given
QEdges ==
    { [subject |-> Val("n1"), object |-> Val("n0")],
      [subject |-> Val("n1"), object |-> Val("n9")],
      [subject |-> Null, object |-> Null] }

Workflows == { Null, Val(<< "lookup" >>), Val(<< "annotate_nodes" >>) }

Requests ==
    [workflow : Workflows,
     nodes : [n0 : SubjectQNodes, n1 : ObjectQNodes],
     edges : [e01 : QEdges]]

\* what the handling of the request has produced so far: the status and the
\* 'description' of the response, message["error"], whether line 91 put a
\* response message into the body, the steps of answer() that were entered,
\* what the similarity service answered, and what the text of its error
\* interpolates
Outcome(kind, status, description) ==
    [kind |-> kind, status |-> status, description |-> description,
     category |-> "",
     error |-> "",
     message_updated |-> FALSE,
     stages |-> {},
     limit_replaced |-> FALSE,
     \* no answer of the similarity service, no body POSTed
     upstream |-> [status_code |-> 0, records |-> 0],
     interpolated |->
        [endpoint |-> "",
         query |-> [termset |-> << >>, group |-> "", directionality |-> "",
                    limit |-> 0, given |-> 0],
         status_code |-> 0]]
NoOutcome == Outcome("none", 0, "")

RequestInit ==
    /\ AssemblyIdle /\ edge_idx = 0 /\ SourcesIdle /\ TasksIdle
    /\ LoggerIdle /\ ConstraintsIdle
    /\ request \in Requests
    /\ rpc = "posted"
    /\ outbound = << >>
    /\ outcome = NoOutcome

(***************************************************************************)
(* ReasonerRequest (models_trapi_1_5.py): the two validators.              *)
(***************************************************************************)
\* lines 20-24
is_lookup(req) ==
    IF req.workflow # Null /\ req.workflow.v # << >>
    THEN "lookup" \in Range(req.workflow.v)
    ELSE TRUE

\* lines 26-31: 'if q_node.ids' for some node
has_bound_node(req) ==
    \E q \in DOMAIN req.nodes :
        req.nodes[q].ids # Null /\ req.nodes[q].ids.v # << >>

\* lines 15-34: TRUE when the assertion holds
validate_unbound_nodes(req) == is_lookup(req) => has_bound_node(req)

\* lines 36-48: the edges whose assertion fails; 'edge.subject ==
\* edge.object is None' skips an edge with neither end
broken_edges(req) ==
    { e \in DOMAIN req.edges :
        /\ ~(req.edges[e].subject = req.edges[e].object /\ req.edges[e].object = Null)
        /\ \/ req.edges[e].subject = Null
           \/ req.edges[e].subject.v \notin DOMAIN req.nodes
           \/ req.edges[e].object = Null
           \/ req.edges[e].object.v \notin DOMAIN req.nodes }

validate_broken_edge(req) == broken_edges(req) = {}

UNBOUND_DESCRIPTION == "Query graph should contain at least one bound node."
BROKEN_EDGE_DESCRIPTION == "Query graph edge references missing node key in message.query_graph.nodes ."

\* the request body is parsed into a ReasonerRequest; a failed assertion is
\* a validation error and reasoner_api is not entered
ValidateRequest ==
    /\ rpc = "posted"
    /\ IF ~validate_broken_edge(request)
       THEN /\ rpc' = "responded"
            /\ outcome' = Outcome("rejected", 422, BROKEN_EDGE_DESCRIPTION)
       ELSE IF ~validate_unbound_nodes(request)
            THEN /\ rpc' = "responded"
                 /\ outcome' = Outcome("rejected", 422, UNBOUND_DESCRIPTION)
            ELSE /\ rpc' = "validated"
                 /\ outcome' = outcome
    /\ UNCHANGED << assembly_vars, edge_idx, sources_vars, tasks, request, outbound,
                   logger_vars, checked >>

(***************************************************************************)
(* mcq_subject_qnode (trapi.py, lines 58-86).  The adapter imports it      *)
(* under the name is_mcq_subject_qnode.  The value is what the call gives: *)
(* the first category, None, or the exception it raises.                   *)
(***************************************************************************)
Returned(category) == [kind |-> "category", v |-> category]
ReturnedNone == [kind |-> "none", v |-> ""]
Raised(err) == [kind |-> "raised", v |-> err]

\* str(id).upper() on the ids that occur
upper(id) ==
    CASE id = "UUID:set" -> "UUID:SET"
      [] id = "uuid:set" -> "UUID:SET"
      [] id = "UUID:other" -> "UUID:OTHER"
      [] OTHER -> id

\* .startswith("UUID:")
startswith_UUID(id) == id \in { "UUID:SET", "UUID:OTHER" }

\* variant: any set node with an interpretation is taken as the subject
mcq_subject_qnode_AnySet(node_data) ==
    IF /\ node_data.is_set
       /\ node_data.set_interpretation # Null
       /\ node_data.set_interpretation.v \in { "MANY", "ALL" }
       /\ node_data.member_ids # Null
    THEN Returned(QUERY_TERM_CATEGORY)
    ELSE ReturnedNone

mcq_subject_qnode(node_data) ==
    IF /\ node_data.is_set
       /\ node_data.set_interpretation # Null
       /\ node_data.set_interpretation.v \in { "MANY", "ALL" }
    THEN IF node_data.ids = Null
         THEN Raised("TypeError")                      \* len(None)
         ELSE IF \/ Len(node_data.ids.v) # 1
                 \/ ~startswith_UUID(upper(node_data.ids.v[1]))
         THEN Raised("RuntimeError")
         ELSE IF node_data.member_ids = Null
         THEN Raised("TypeError")                      \* len(None)
         ELSE IF Len(node_data.member_ids.v) = 0
         THEN Raised("RuntimeError")
         ELSE IF node_data.categories = Null
         THEN Raised("TypeError")                      \* None[0]
         ELSE IF node_data.categories.v = << >>
         THEN Raised("IndexError")                     \* [][0]
         ELSE Returned(node_data.categories.v[1])
    ELSE ReturnedNone

\* the loops over query_graph.nodes (monarch_adapter.py 246-260, trapi.py
\* 193-200): the first node that is the subject, or the exception that
\* ended the loop
RECURSIVE SubjectSearch(_, _)
SubjectSearch(req, k) ==
    IF k > Len(QNodeOrder) THEN [found |-> "", raised |-> ""]
    ELSE LET r == mcq_subject_qnode(req.nodes[QNodeOrder[k]])
         IN IF r.kind = "raised" THEN [found |-> "", raised |-> r.v]
            ELSE IF r.kind = "category" /\ r.v # ""
                 THEN [found |-> QNodeOrder[k], raised |-> ""]
                 ELSE SubjectSearch(req, k + 1)

\* monarch_adapter.py 256-258
query_term_category(qnode_details) ==
    IF qnode_details.categories # Null /\ qnode_details.categories.v # << >>
    THEN qnode_details.categories.v[1]
    ELSE "biolink:NamedThing"

(***************************************************************************)
(* reasoner_api (app_trapi_1_5.py, lines 54-109) up to the similarity      *)
(* call, the only await of the handler.                                    *)
(***************************************************************************)
Limits ==
    { [kind |-> "null", n |-> 0], [kind |-> "text", n |-> 0] }
      \cup { [kind |-> "int", n |-> k] : k \in (0 - 2)..MaxLimit }

\* lines 75-80: int(limit), 10 when there is none or it is no number
parse_limit(limit) == IF limit.kind = "int" THEN limit.n ELSE 10

\* variant: only the upper end is coerced
coerce_result_limit_UpperOnly(result_limit) ==
    IF result_limit > 50 THEN 50 ELSE result_limit

\* semsim_search, lines 119-120
coerce_result_limit(result_limit) ==
    IF result_limit < 1 \/ result_limit > 50 THEN 50 ELSE result_limit

\* semsim_search, lines 136-141: the body of the POST ('given' remembers
\* the result_limit the call was made with)
SemsimQuery(terms, result_limit) ==
    [termset |-> terms,
     group |-> "Human Diseases",
     directionality |-> "object_to_subject",
     limit |-> coerce_result_limit(result_limit),
     given |-> result_limit]

MCQ_DESCRIPTION == "Query Graph Node 'set_interpretation' is 'MANY' or 'ALL', thus 'ids' must have a single global ('UUID') set identifier"

\* monarch_adapter.py 286-289
MISSING_SUBJECT_MESSAGE == "Current query graph is missing a properly formulated subject node with query terms for a multi-CURIE query"

\* app_trapi_1_5.py 79
INVALID_LIMIT_MESSAGE == "Invalid result limit string in TRAPI Query JSON. Setting to default 10 value."

\* monarch_adapter.py 30-42, with the defaults of the environment
SEMSIMIAN_ENDPOINT == "http://api-v3.monarchinitiative.org/v3/api/semsim/search"

\* monarch_adapter.py 153-154: the text of the RuntimeError, which
\* interpolates the endpoint, the body and the status code
UPSTREAM_DESCRIPTION == "Monarch SemSimian at Url: '{SEMSIMIAN_ENDPOINT}', Query: '{query}' returned HTTP error code: '{response.status_code}'"

\* the id the query's log entries are filed under
QUERY_ID == "u1"

\* lines 75-80: int(limit) raised ValueError or TypeError
is_invalid_limit(limit) == limit.kind = "text"

\* the steps of answer() after run_query
AssemblySteps ==
    { "build_trapi_message", "transform_attributes",
      "apply_attribute_constraints" }

HandleQuery ==
    /\ rpc = "validated"
    /\ \E limit \in Limits :
          LET result_limit == parse_limit(limit)
              search == SubjectSearch(request, 1)
              \* line 79: the warning is given no query_id
              limit_log == IF is_invalid_limit(limit)
                           THEN process(query_log, INVALID_LIMIT_MESSAGE,
                                        NoQueryId, "warning")
                           ELSE query_log
              limited(o) == [o EXCEPT !.limit_replaced = is_invalid_limit(limit)]
          IN IF ~is_lookup(request)
             THEN \* no branch for the workflow: the request is echoed
                  /\ rpc' = "responded"
                  /\ outcome' = limited(Outcome("echoed", 200, ""))
                  /\ outbound' = outbound
                  /\ query_log' = limit_log
             ELSE IF search.raised \notin { "", "RuntimeError" }
             THEN \* not a RuntimeError: neither 'except' catches it
                  /\ rpc' = "responded"
                  /\ outcome' = limited(Outcome("crashed", 500, search.raised))
                  /\ outbound' = outbound
                  /\ query_log' = limit_log
             ELSE IF search.found # ""
             THEN /\ rpc' = "awaiting"
                  /\ outcome' = limited([NoOutcome EXCEPT
                        !.category = query_term_category(request.nodes[search.found])])
                  /\ outbound' = Append(outbound,
                        SemsimQuery(request.nodes[search.found].member_ids.v,
                                    result_limit))
                  /\ query_log' = limit_log
             ELSE IF search.raised = "RuntimeError"
             THEN \* the adapter logs it (261) and the missing subject (286)
                  \* and returns no result; build_trapi_message returns
                  \* {"error": ...} (line 200), which lines 284-285 of
                  \* question.py put into the query's message
                  /\ rpc' = "responded"
                  /\ outcome' = limited([Outcome("error_message", 200, "") EXCEPT
                        !.error = MCQ_DESCRIPTION,
                        !.message_updated = TRUE,
                        !.stages = AssemblySteps])
                  /\ outbound' = outbound
                  /\ query_log' =
                        process(process(limit_log, MCQ_DESCRIPTION, QUERY_ID, "error"),
                                MISSING_SUBJECT_MESSAGE, QUERY_ID, "error")
             ELSE \* no subject and no error: the adapter logs the missing
                  \* subject; result["set_interpretation"] of the empty
                  \* result raises (trapi.py 480)
                  /\ rpc' = "responded"
                  /\ outcome' = limited([Outcome("crashed", 500, "KeyError") EXCEPT
                        !.stages = { "build_trapi_message" }])
                  /\ outbound' = outbound
                  /\ query_log' =
                        process(limit_log, MISSING_SUBJECT_MESSAGE, QUERY_ID, "error")
    /\ UNCHANGED << assembly_vars, edge_idx, sources_vars, tasks, request,
                   log_calls, last_logs, checked >>

http_ok_Always(status_code) == TRUE

\* monarch_adapter.py 151: the status the adapter takes for a success
http_ok(status_code) == status_code = 200

\* the similarity service answers (monarch_adapter.py 145-157, 276-283) and
\* the handler runs to its end
SimilarityResponds ==
    /\ rpc = "awaiting"
    /\ \E status_code \in { 200, 503 }, records \in 0..1 :
          LET answered == [status_code |-> status_code, records |-> records]
              carried(o) == [o EXCEPT !.upstream = answered,
                                      !.category = outcome.category,
                                      !.limit_replaced = outcome.limit_replaced]
          IN /\ rpc' = "responded"
             /\ outcome' =
                  IF ~http_ok(status_code)
                  THEN \* RuntimeError, caught at app_trapi_1_5.py 92: status
                       \* 400 and request_json["description"]
                       carried([Outcome("bad_request", 400, UPSTREAM_DESCRIPTION) EXCEPT
                          !.interpolated =
                              [endpoint |-> SEMSIMIAN_ENDPOINT,
                               query |-> outbound[Len(outbound)],
                               status_code |-> status_code]])
                  ELSE IF records = 0
                  THEN \* full_result[0] of the empty list
                       carried(Outcome("crashed", 500, "IndexError"))
                  ELSE carried([Outcome("answered", 200, "") EXCEPT
                          !.message_updated = TRUE,
                          !.stages = { "parse_raw_semsim" } \cup AssemblySteps])
    /\ UNCHANGED << assembly_vars, edge_idx, sources_vars, tasks, request, outbound,
                   logger_vars, checked >>

RequestNext ==
    \/ ValidateRequest
    \/ HandleQuery
    \/ SimilarityResponds

RequestSpec == RequestInit /\ [][RequestNext]_vars

\* The handler's own steps are taken once they can be; nothing in the code
\* makes the similarity service answer, and requests.post (lines 145-149)
\* is given no timeout, so no step of the handler ends the wait.
RequestLiveSpec ==
    /\ RequestInit
    /\ [][RequestNext]_vars
    /\ WF_vars(ValidateRequest)
    /\ WF_vars(HandleQuery)

(***************************************************************************)
(* Vocabulary of the properties.                                           *)
(***************************************************************************)
KGNodes == trapi_response.knowledge_graph.nodes
KGEdges == trapi_response.knowledge_graph.edges
AuxGraphs == trapi_response.auxiliary_graphs
Results == trapi_response.results

IsMemberOfEdge(edge) == edge.predicate = "biolink:member_of"
IsAnswerEdge(edge) == edge.predicate = "biolink:similar_to" /\ edge.object = SetId
IsMatchToInputEdge(edge) == edge.predicate = "biolink:similar_to" /\ edge.object # SetId
IsMatchToCandidateEdge(edge) == edge.predicate = MATCH_PREDICATE

AnswerEdgeIds == { e \in DOMAIN KGEdges : IsAnswerEdge(KGEdges[e]) }

\* a response that holds edges of all four kinds
AllEdgeKindsPresent ==
    /\ \E e \in DOMAIN KGEdges : IsMemberOfEdge(KGEdges[e])
    /\ \E e \in DOMAIN KGEdges : IsAnswerEdge(KGEdges[e])
    /\ \E e \in DOMAIN KGEdges : IsMatchToInputEdge(KGEdges[e])
    /\ \E e \in DOMAIN KGEdges : IsMatchToCandidateEdge(KGEdges[e])

\* the values of the attributes of an edge that have the given type id
AttributeValues(edge, type_id) ==
    { edge.attributes[i].value.v :
        i \in { j \in DOMAIN edge.attributes :
                  edge.attributes[j].attribute_type_id = type_id } }

(***************************************************************************)
(* C1.  In every response build_trapi_message returns, the subject and the *)
(* object of every knowledge-graph edge are keys of the knowledge-graph    *)
(* nodes.                                                                  *)
(***************************************************************************)
C1_EdgeEndpointsAreNodes ==
    pc = "assembled" =>
        \A e \in DOMAIN KGEdges :
            /\ KGEdges[e].subject \in DOMAIN KGNodes
            /\ KGEdges[e].object \in DOMAIN KGNodes

C1_Witness ==
    /\ pc = "assembled"
    /\ set_interpretation = "ALL"
    /\ AllEdgeKindsPresent
    /\ \E e \in DOMAIN KGEdges : KGEdges[e].subject = "m1"

(***************************************************************************)
(* C2.  In every response, every edge id listed by an auxiliary graph is a *)
(* key of the knowledge-graph edges, the member_of edge ids included.      *)
(***************************************************************************)
C2_AuxGraphEdgesResolve ==
    pc = "assembled" =>
        \A g \in DOMAIN AuxGraphs :
            \A i \in DOMAIN AuxGraphs[g].edges :
                AuxGraphs[g].edges[i] \in DOMAIN KGEdges

C2_Witness ==
    /\ pc = "assembled"
    /\ \E g \in DOMAIN AuxGraphs :
          /\ \E i \in DOMAIN AuxGraphs[g].edges :
                /\ AuxGraphs[g].edges[i] \in DOMAIN KGEdges
                /\ IsMemberOfEdge(KGEdges[AuxGraphs[g].edges[i]])
          /\ \E i \in DOMAIN AuxGraphs[g].edges :
                /\ AuxGraphs[g].edges[i] \in DOMAIN KGEdges
                /\ IsMatchToInputEdge(KGEdges[AuxGraphs[g].edges[i]])

(***************************************************************************)
(* C3.  Results, answer edges and auxiliary graphs correspond one to one:  *)
(* every result has one analysis that binds one answer edge, running from  *)
(* the result's candidate to the set id; different results bind different  *)
(* answer edges and every answer edge is bound; the support_graphs         *)
(* attribute of an answer edge is the one-element list of "sg-" followed   *)
(* by the edge's own id; and the auxiliary graphs are keyed by exactly     *)
(* these ids.                                                              *)
(***************************************************************************)
BoundAnswerEdge(i) == Results[i].analyses[1].edge_bindings["e01"][1].id

C3_ResultsAnswerEdgesAuxGraphs ==
    pc = "assembled" =>
        /\ \A i \in DOMAIN Results :
              /\ Len(Results[i].analyses) = 1
              /\ DOMAIN Results[i].analyses[1].edge_bindings = {"e01"}
              /\ Len(Results[i].analyses[1].edge_bindings["e01"]) = 1
              /\ BoundAnswerEdge(i) \in AnswerEdgeIds
              /\ << [id |-> KGEdges[BoundAnswerEdge(i)].subject] >>
                    = Results[i].node_bindings[qnode_object_key]
        /\ \A i, j \in DOMAIN Results :
              BoundAnswerEdge(i) = BoundAnswerEdge(j) => i = j
        /\ AnswerEdgeIds = { BoundAnswerEdge(i) : i \in DOMAIN Results }
        /\ \A a \in AnswerEdgeIds :
              AttributeValues(KGEdges[a], "biolink:support_graphs")
                  = { << <<"s", "g", "-">> \o a >> }
        /\ DOMAIN AuxGraphs = { <<"s", "g", "-">> \o a : a \in AnswerEdgeIds }

C3_Witness ==
    /\ pc = "assembled"
    /\ Len(Results) = 2
    /\ Cardinality(DOMAIN AuxGraphs) = 2

(***************************************************************************)
(* C4.  In the message returned for a query that carries an attribute      *)
(* constraint, the auxiliary graphs are still present and every edge that  *)
(* declares a support_graphs attribute names only auxiliary graphs of that *)
(* message.                                                                *)
(***************************************************************************)
HasConstraints(msg) ==
    \/ DOMAIN node_constraints(msg) # {}
    \/ DOMAIN edge_constraints(msg) # {}

SupportGraphsResolve(msg) ==
    /\ "auxiliary_graphs" \in DOMAIN msg
    /\ \A e \in DOMAIN msg["knowledge_graph"].edges :
          \A value \in AttributeValues(msg["knowledge_graph"].edges[e],
                                       "biolink:support_graphs") :
              \A i \in DOMAIN value : value[i] \in DOMAIN msg["auxiliary_graphs"]

C4_ConstrainedResponseKeepsSupportGraphs ==
    (pc = "done" /\ HasConstraints(message)) => SupportGraphsResolve(message)

(***************************************************************************)
(* C5.  Under ALL, for every result of the response, the match-to-input    *)
(* edges listed in the support graph of the result's answer edge have      *)
(* objects that cover every query term.                                    *)
(***************************************************************************)
SupportGraphOf(i) == AuxGraphs[<<"s", "g", "-">> \o BoundAnswerEdge(i)]

MatchToInputEdgesOf(i) ==
    { e \in Range(SupportGraphOf(i).edges) : IsMatchToInputEdge(KGEdges[e]) }

C5_AllCoversEveryQueryTerm ==
    (pc = "assembled" /\ set_interpretation = "ALL") =>
        \A i \in DOMAIN Results :
            Range(query_terms) \subseteq
                { KGEdges[e].object : e \in MatchToInputEdgesOf(i) }

C5_Witness ==
    /\ pc = "assembled"
    /\ set_interpretation = "ALL"
    /\ Len(query_terms) = 2
    /\ Results # << >>
    /\ \E k \in DOMAIN candidate_log : ~candidate_log[k].emitted

(***************************************************************************)
(* C6.  Under ALL, a candidate for which not every input term was observed *)
(* contributes nothing to the response: no result binds it, no edge runs   *)
(* from or to it, none of the edge ids allocated while it was processed is *)
(* a knowledge-graph edge or listed by an auxiliary graph, and it is no    *)
(* knowledge-graph node.                                                   *)
(***************************************************************************)
EdgeIdsAllocatedFor(entry) ==
    { format_edge_id(idx) : idx \in (entry.idx_from + 1) .. entry.idx_to }

C6_SkippedCandidateContributesNothing ==
    (pc = "assembled" /\ set_interpretation = "ALL") =>
        \A k \in DOMAIN candidate_log :
            ~candidate_log[k].all_seen =>
                LET c == candidate_log[k].id
                    ids == EdgeIdsAllocatedFor(candidate_log[k])
                IN /\ \A i \in DOMAIN Results :
                          \A q \in DOMAIN Results[i].node_bindings :
                              c \notin BoundIds(Results[i].node_bindings[q])
                   /\ \A e \in DOMAIN KGEdges :
                          KGEdges[e].subject # c /\ KGEdges[e].object # c
                   /\ ids \cap DOMAIN KGEdges = {}
                   /\ \A g \in DOMAIN AuxGraphs :
                          ids \cap Range(AuxGraphs[g].edges) = {}
                   /\ c \notin DOMAIN KGNodes

C6_Witness ==
    /\ pc = "assembled"
    /\ set_interpretation = "ALL"
    /\ \E k \in DOMAIN candidate_log :
          /\ ~candidate_log[k].all_seen
          /\ candidate_log[k].idx_to > candidate_log[k].idx_from
    /\ Results # << >>

(***************************************************************************)
(* C7.  Under MANY, the results of a response are the entries of           *)
(* result_map, one result per entry and in the order of result_map,        *)
(* whether or not the candidate matched every input term.                  *)
(***************************************************************************)
C7_ManyKeepsEveryCandidate ==
    (pc = "assembled" /\ set_interpretation = "MANY") =>
        /\ Len(Results) = Len(result_map_keys)
        /\ \A i \in DOMAIN Results :
              Results[i].node_bindings[qnode_object_key]
                  = << [id |-> result_map_keys[i]] >>

C7_Witness ==
    /\ pc = "assembled"
    /\ set_interpretation = "MANY"
    /\ Len(Results) = 2
    /\ \E k \in DOMAIN candidate_log : candidate_log[k].n_matches = 0
    /\ \E k \in DOMAIN candidate_log :
          /\ candidate_log[k].n_matches > 0
          /\ ~candidate_log[k].all_seen

(***************************************************************************)
(* C8.  While the matches of a candidate are consumed, the cache holds for *)
(* every matched subject the match with the highest score, and among       *)
(* matches of equal score the one seen first.                              *)
(***************************************************************************)
MatchesOf(s) == { i \in DOMAIN matches : matches[i].subject_id = s }

\* the first of the highest scoring matches of subject s
FirstBest(s) ==
    CHOOSE i \in MatchesOf(s) :
        \A j \in MatchesOf(s) :
            \/ matches[j].score < matches[i].score
            \/ (matches[j].score = matches[i].score /\ i <= j)

C8_TieKeepsFirstSeen ==
    pc = "matching" =>
        \A s \in DOMAIN query_term_match_cache :
            /\ query_term_match_cache[s].score = matches[FirstBest(s)].score
            /\ query_term_match_cache[s].query_term = matches[FirstBest(s)].object_id

(***************************************************************************)
(* C9.  In every response, no two match-to-input edges listed by one       *)
(* support graph have the same subject.                                    *)
(***************************************************************************)
C9_OneMatchToInputEdgePerSubject ==
    pc = "assembled" =>
        \A g \in DOMAIN AuxGraphs :
            \A i, j \in DOMAIN AuxGraphs[g].edges :
                LET ei == KGEdges[AuxGraphs[g].edges[i]]
                    ej == KGEdges[AuxGraphs[g].edges[j]]
                IN (i # j /\ IsMatchToInputEdge(ei) /\ IsMatchToInputEdge(ej))
                       => ei.subject # ej.subject

\* the last candidate was emitted from a match list that repeats a subject
\* and names two subjects
C9_Witness ==
    /\ pc = "assembled"
    /\ candidate_log # << >>
    /\ candidate_log[Len(candidate_log)].emitted
    /\ \E i, j \in DOMAIN matches :
          i # j /\ matches[i].subject_id = matches[j].subject_id
    /\ Cardinality({ matches[i].subject_id : i \in DOMAIN matches }) = 2

(***************************************************************************)
(* C10.  After the attribute mapper has run, the sources of every          *)
(* knowledge-graph edge hold exactly one entry whose role is               *)
(* aggregator_knowledge_source and whose resource id is the system         *)
(* provenance.                                                             *)
(***************************************************************************)
SystemAggregatorEntries(edge) ==
    { i \in DOMAIN edge.sources :
        /\ edge.sources[i].resource_role = "aggregator_knowledge_source"
        /\ edge.sources[i].resource_id = DEFAULT_PROVENANCE }

C10_OneSystemAggregatorPerEdge ==
    pc = "mapped" =>
        \A e \in DOMAIN KGEdges :
            Cardinality(SystemAggregatorEntries(KGEdges[e])) = 1

C10_Witness ==
    /\ pc = "mapped"
    /\ AllEdgeKindsPresent
    /\ \E e \in DOMAIN KGEdges : Len(KGEdges[e].sources) = 4

(***************************************************************************)
(* C11.  _construct_sources_tree returns one entry per distinct valid      *)
(* (role, id) pair of its input - an aggregator entry with the primary     *)
(* ids as upstreams, a primary entry with the supporting ids, a supporting *)
(* entry with none - followed by one system aggregator entry whose         *)
(* upstreams are the ids of the highest populated role (aggregator, then   *)
(* primary, then supporting), none when the input has no valid stub.       *)
(***************************************************************************)
C11_Role(role) ==
    IF role = "biolink:primary_knowledge_source"
    THEN "primary_knowledge_source" ELSE role

C11_ValidPairs ==
    { << C11_Role(source_stubs[i].resource_role), source_stubs[i].resource_id >> :
        i \in { j \in DOMAIN source_stubs :
                  /\ source_stubs[j].resource_id # ""
                  /\ source_stubs[j].resource_role # "" } }

C11_IdsUnder(role) == { p[2] : p \in { q \in C11_ValidPairs : q[1] = role } }

C11_ExpectedUpstreams(role) ==
    CASE role = "aggregator_knowledge_source" -> C11_IdsUnder("primary_knowledge_source")
      [] role = "primary_knowledge_source" -> C11_IdsUnder("supporting_data_source")
      [] OTHER -> None

C11_ExpectedTopLevel ==
    IF C11_IdsUnder("aggregator_knowledge_source") # {}
    THEN C11_IdsUnder("aggregator_knowledge_source")
    ELSE IF C11_IdsUnder("primary_knowledge_source") # {}
         THEN C11_IdsUnder("primary_knowledge_source")
         ELSE IF C11_IdsUnder("supporting_data_source") # {}
              THEN C11_IdsUnder("supporting_data_source")
              ELSE None

C11_SourcesTreeShape ==
    sources_tree # << >> =>
        LET n == Len(sources_tree) - 1
            last == sources_tree[n + 1]
        IN /\ n = Cardinality(C11_ValidPairs)
           /\ { << sources_tree[i].resource_role, sources_tree[i].resource_id >> :
                  i \in 1..n } = C11_ValidPairs
           /\ \A i \in 1..n :
                 sources_tree[i].upstream_resource_ids
                    = C11_ExpectedUpstreams(sources_tree[i].resource_role)
           /\ last.resource_id = DEFAULT_PROVENANCE
           /\ last.resource_role = "aggregator_knowledge_source"
           /\ last.upstream_resource_ids = C11_ExpectedTopLevel

C11_Witness ==
    /\ Len(sources_tree) = 4
    /\ \E i \in 1..3 : sources_tree[i].resource_role = "aggregator_knowledge_source"
    /\ \E i \in 1..3 : sources_tree[i].resource_role = "primary_knowledge_source"
    /\ \E i \in 1..3 : sources_tree[i].resource_role = "supporting_data_source"

(***************************************************************************)
(* C12.  The edge ids allocated since reset_edge_idx are 'e' followed by   *)
(* the counter 1, 2, ... zero-padded to at least four digits, each counter *)
(* greater than the one before; so the ids are pairwise distinct, every    *)
(* knowledge-graph edge key is one of them and no stored edge has replaced *)
(* another: the response holds one member_of edge per query term and, per  *)
(* emitted candidate, one answer edge and two edges per cached match.      *)
(***************************************************************************)
C12_DigitValue(ch) == CHOOSE d \in 0..9 : DigitChars[d + 1] = ch

RECURSIVE C12_Value(_)
C12_Value(digits) ==
    IF digits = << >> THEN 0
    ELSE 10 * C12_Value(SubSeq(digits, 1, Len(digits) - 1))
           + C12_DigitValue(digits[Len(digits)])

RECURSIVE C12_StoredEdges(_)
C12_StoredEdges(k) ==
    IF k = 0 THEN Len(query_terms)
    ELSE C12_StoredEdges(k - 1)
           + (IF candidate_log[k].emitted
              THEN 1 + 2 * candidate_log[k].n_cached ELSE 0)

C12_EdgeIdsDistinct ==
    /\ \A i \in 1..edge_idx :
          LET id == format_edge_id(i)
          IN /\ id[1] = "e"
             /\ Len(id) >= 5
             /\ \A j \in 2..Len(id) : id[j] \in Range(DigitChars)
             /\ C12_Value(Tail(id)) = i
    /\ \A i, j \in 1..edge_idx :
          i < j => /\ format_edge_id(i) # format_edge_id(j)
                   /\ C12_Value(Tail(format_edge_id(i))) < C12_Value(Tail(format_edge_id(j)))
    /\ DOMAIN KGEdges \subseteq { format_edge_id(i) : i \in 1..edge_idx }
    /\ pc \in {"candidates", "assembled"} =>
          Cardinality(DOMAIN KGEdges) = C12_StoredEdges(Len(candidate_log))

C12_Witness ==
    /\ pc = "assembled"
    /\ edge_idx >= 10
    /\ Len(Results) = 2
    /\ Cardinality(DOMAIN KGEdges) < edge_idx

(***************************************************************************)
(* C13.  With several queries in flight, each interleaving with the others *)
(* only at its similarity call, the ids a query's assembly has drawn from  *)
(* the module-level counter are e0001, e0002, ... without a gap: no other  *)
(* query advanced the counter in between, and the ids of one response are  *)
(* pairwise distinct.                                                      *)
(***************************************************************************)
C13_CounterIsPerQuery ==
    \A q \in Queries :
        LET ids == tasks[q].ids
        IN /\ \A i \in DOMAIN ids :
                 /\ ids[i][1] = "e"
                 /\ C12_Value(Tail(ids[i])) = i
           /\ \A i, j \in DOMAIN ids : i # j => ids[i] # ids[j]
           /\ tasks[q].pc = "assembling" => edge_idx = Len(ids)

C13_Witness ==
    /\ \A q \in Queries : tasks[q].pc \in {"assembling", "done"}
    /\ \A q \in Queries : Len(tasks[q].ids) >= 2
    /\ \E q \in Queries : tasks[q].pc = "assembling"

(***************************************************************************)
(* C14.  In every result of the response, the analysis binds the answer    *)
(* edge under the key the query graph gives its only query edge, whatever  *)
(* that key is.                                                            *)
(***************************************************************************)
C14_AnalysisBindsTheQueryEdge ==
    pc = "done" =>
        \A i \in DOMAIN message.results :
            \A a \in DOMAIN message.results[i].analyses :
                DOMAIN message.results[i].analyses[a].edge_bindings
                    = DOMAIN message.query_graph.edges

(***************************************************************************)
(* C15.  In the output of apply_attribute_constraints, every node a        *)
(* remaining result binds to a constrained query node, and every edge a    *)
(* remaining result binds to a constrained query edge, is in the knowledge *)
(* graph and passes check_attributes for that query element's constraints; *)
(* filtering the output once more changes nothing.                         *)
(***************************************************************************)
C15_OutputSatisfiesConstraints ==
    (pc = "done" /\ HasConstraints(message)) =>
        LET nc == node_constraints(message)
            ec == edge_constraints(message)
            kg == message.knowledge_graph
            results == message.results
        IN /\ \A i \in DOMAIN results :
                 \A q \in DOMAIN nc :
                     \A x \in BoundIds(results[i].node_bindings[q]) :
                         /\ x \in DOMAIN kg.nodes
                         /\ check_attributes(nc[q], kg.nodes[x].attributes)
           /\ \A i \in DOMAIN results :
                 \A a \in DOMAIN results[i].analyses :
                     \A q \in (DOMAIN ec) \cap (DOMAIN results[i].analyses[a].edge_bindings) :
                         \A x \in BoundIds(results[i].analyses[a].edge_bindings[q]) :
                             /\ x \in DOMAIN kg.edges
                             /\ check_attributes(ec[q], kg.edges[x].attributes)
           /\ apply_attribute_constraints(message) = message

\* a constrained query edge, one result kept and one removed
C15_Witness ==
    /\ pc = "done"
    /\ DOMAIN edge_constraints(message) # {}
    /\ Len(message.results) = 1
    /\ Len(Results) = 2
    /\ \E q \in DOMAIN edge_constraints(message) :
          q \in DOMAIN message.results[1].analyses[1].edge_bindings

(***************************************************************************)
(* Vocabulary of the request properties.                                   *)
(***************************************************************************)
\* reasoner_api has taken the request through the search for the subject
SubjectSearched ==
    /\ rpc \in { "awaiting", "responded" }
    /\ outcome.kind \notin { "rejected", "echoed" }

\* the conditions the specification gives for an MCQ subject
IsInterpretedSet(node) ==
    /\ node.is_set
    /\ node.set_interpretation \in { Val("MANY"), Val("ALL") }

QualifiesAsSubject(node) ==
    /\ IsInterpretedSet(node)
    /\ node.ids \in { Val(<< "UUID:set" >>), Val(<< "uuid:set" >>) }
    /\ node.member_ids \notin { Null, Val(<< >>) }

(***************************************************************************)
(* C16.  The 'limit' of every body sent to the similarity service lies in  *)
(* 1..50: it is the result_limit the call was given when that lies in      *)
(* 1..50, and 50 otherwise (0 is sent as 50).                              *)
(***************************************************************************)
C16_LimitIsCoerced ==
    \A i \in DOMAIN outbound :
        /\ outbound[i].limit \in 1..50
        /\ outbound[i].given \in 1..50 => outbound[i].limit = outbound[i].given
        /\ outbound[i].given \notin 1..50 => outbound[i].limit = 50

C16_Witness ==
    /\ \E i \in DOMAIN outbound : outbound[i].given = 0 /\ outbound[i].limit = 50
    /\ rpc = "awaiting"

(***************************************************************************)
(* C17.  mcq_subject_qnode recognises a query node exactly when it is a    *)
(* set with interpretation MANY or ALL, one id with the prefix 'UUID:' in  *)
(* any case, and member ids; it raises the validation error exactly when   *)
(* the node is such a set but one of the other conditions fails; for every *)
(* other node it reports 'not a subject' without an error.                 *)
(***************************************************************************)
C17_SubjectRecognition ==
    SubjectSearched =>
        LET node == request.nodes["n0"]
            r == mcq_subject_qnode(node)
        IN /\ r.kind = "category" <=> QualifiesAsSubject(node)
           /\ r = Raised("RuntimeError")
                 <=> (IsInterpretedSet(node) /\ ~QualifiesAsSubject(node))
           /\ ~IsInterpretedSet(node) => r = ReturnedNone

(***************************************************************************)
(* C18.  A query whose well-formed MCQ subject has no categories (null or  *)
(* empty) is taken through the pipeline with biolink:NamedThing as the     *)
(* category of the query terms: the similarity call is made and nothing    *)
(* aborts on the missing categories.                                       *)
(***************************************************************************)
C18_NoCategoriesIsAnswered ==
    (/\ SubjectSearched
     /\ QualifiesAsSubject(request.nodes["n0"])
     /\ request.nodes["n0"].categories \in { Null, Val(<< >>) })
        => /\ Len(outbound) = 1
           /\ outcome.category = "biolink:NamedThing"
           /\ outcome.description \notin { "TypeError", "IndexError", "KeyError" }

(***************************************************************************)
(* C19.  Every lookup query (the workflow names lookup, or none is given)  *)
(* that request validation accepts has a query node with ids, and the      *)
(* subject and object of each query edge are keys of the query nodes; a    *)
(* lookup query without a bound node is rejected with the description      *)
(* "Query graph should contain at least one bound node.".                  *)
(***************************************************************************)
C19_IsLookup ==
    request.workflow \in { Null, Val(<< >>), Val(<< "lookup" >>) }

C19_HasBoundNode ==
    \E q \in DOMAIN request.nodes : request.nodes[q].ids \notin { Null, Val(<< >>) }

C19_EdgesReferenceNodes ==
    \A e \in DOMAIN request.edges :
        /\ request.edges[e].subject \in { Val(q) : q \in DOMAIN request.nodes }
        /\ request.edges[e].object \in { Val(q) : q \in DOMAIN request.nodes }

C20_CallOnlyForSubject ==
    /\ outbound # << >> =>
          /\ rpc \in { "awaiting", "responded" }
          /\ \E q \in DOMAIN request.nodes :
                /\ QualifiesAsSubject(request.nodes[q])
                /\ \A i \in DOMAIN outbound :
                      /\ outbound[i].termset = request.nodes[q].member_ids.v
                      /\ outbound[i].termset # << >>
    /\ rpc \in { "idle", "posted", "validated" } => outbound = << >>

\* an ill-formed set node was answered without a call, and so was a query
\* without any set node
C20_Witness ==
    /\ rpc = "responded"
    /\ outbound = << >>
    /\ outcome.kind \in { "error_message", "crashed" }
    /\ ~QualifiesAsSubject(request.nodes["n0"])
    /\ request.nodes["n0"].is_set


(***************************************************************************)
(* Vocabulary of the logger properties.                                    *)
(***************************************************************************)
\* the first n logging calls that were given query_id
CallsFor(query_id, n) ==
    SelectSeq(SubSeq(log_calls, 1, n), LAMBDA c : c.query_id = query_id)

\* logs holds one entry for each of these calls, in their order
LogsMatch(logs, query_id, n) ==
    LET calls == CallsFor(query_id, n)
    IN /\ Len(logs) = Len(calls)
       /\ \A i \in 1..Len(logs) :
             /\ logs[i].message = calls[i].message
             /\ logs[i].level \in LogLevelEnum
             /\ calls[i].method \in LogLevelEnum => logs[i].level = calls[i].method

(***************************************************************************)
(* C24.  After any sequence of debug, info, warning, error and critical    *)
(* calls for several query ids, get_logs(u) gives exactly the entries that *)
(* were logged with query_id = u, in the order of the calls, each with a   *)
(* level among debug, info, warning and error; a call without a query id   *)
(* adds no entry; get_logs adds no key to the store, and gives the empty   *)
(* list for an id nothing was logged under.                                *)
(***************************************************************************)
C24_GetLogsGivesTheEntriesOfTheQuery ==
    /\ \A u \in QueryIds \cup { UnknownQueryId } :
          LogsMatch(get_logs(query_log, u), u, Len(log_calls))
    /\ LogsMatch(get_logs(query_log, NoQueryId), UnknownQueryId, Len(log_calls))
    /\ \A i \in 1..Len(last_logs) :
          LogsMatch(last_logs[i].logs, last_logs[i].query_id, last_logs[i].at)
    /\ DOMAIN query_log =
          { log_calls[i].query_id : i \in 1..Len(log_calls) } \ { NoQueryId }

\* the calls interleave two query ids, the last of them a critical call,
\* and get_logs was then asked for an id nothing was logged under
C24_InterleavedQueriesLogged ==
    /\ Len(log_calls) = MaxLogCalls
    /\ \E i, j, k \in 1..Len(log_calls) :
          /\ i < j /\ j < k
          /\ log_calls[i].query_id = "u1"
          /\ log_calls[j].query_id = "u2"
          /\ log_calls[k].query_id = "u1"
          /\ log_calls[k].method = "critical"
    /\ Len(get_logs(query_log, "u1")) = 2
    /\ Len(last_logs) = 1
    /\ last_logs[1].query_id = UnknownQueryId
    /\ last_logs[1].at = MaxLogCalls

(***************************************************************************)
(* Vocabulary of the failure properties.                                   *)
(***************************************************************************)
\* reasoner_api has returned a response for a lookup it was given
LookupResponded ==
    /\ rpc = "responded"
    /\ outcome.kind # "rejected"
    /\ is_lookup(request)

\* an interpreted set whose ids are not one UUID identifier or whose
\* member_ids are empty
IllFormedSet(node) ==
    /\ IsInterpretedSet(node)
    /\ node.ids # Null
    /\ node.member_ids # Null
    /\ ~QualifiesAsSubject(node)

\* the similarity service has answered with this status
UpstreamAnswered(status_code) ==
    /\ rpc = "responded"
    /\ outcome.upstream.status_code = status_code

(***************************************************************************)
(* C21.  A lookup whose set node is an interpreted set (is_set, MANY or    *)
(* ALL) but ill-formed is answered with HTTP 400 and the text of the       *)
(* validation error as the 'description' of the response body.             *)
(***************************************************************************)
C21_IllFormedSetIsBadRequest ==
    (LookupResponded /\ IllFormedSet(request.nodes.n0))
        => /\ outcome.status = 400
           /\ outcome.description = MCQ_DESCRIPTION

C23_AwaitedCallEnds == (rpc = "awaiting") ~> (rpc = "responded")

(***************************************************************************)
(* C25.  Every handled failure (an ill-formed subject, a status other than *)
(* 200 from the similarity service, an error result of the assembly, an    *)
(* invalid limit replaced by the default) has left at least one log entry  *)
(* under the query's id by the time the response is returned.              *)
(***************************************************************************)
C25_HandledFailureIsLogged ==
    (LookupResponded
        /\ \/ outcome.kind \in { "error_message", "bad_request" }
           \/ outcome.limit_replaced)
        => Len(get_logs(query_log, QUERY_ID)) >= 1

\* the ill-formed subject is the failure that does leave entries
C25_IllFormedSubjectLogged ==
    /\ LookupResponded
    /\ outcome.kind = "error_message"
    /\ Len(get_logs(query_log, QUERY_ID)) = 2

(***************************************************************************)
(* C30.  When the similarity service answers 200 with an empty list the    *)
(* query is answered: status 200, a response message assembled from an     *)
(* empty result_map.                                                       *)
(***************************************************************************)
C30_EmptyAnswerIsAnswered ==
    (UpstreamAnswered(200) /\ outcome.upstream.records = 0)
        => /\ outcome.kind = "answered"
           /\ outcome.status = 200
           /\ outcome.message_updated

(***************************************************************************)
(* C26.  Under ALL a candidate is emitted whenever every input term is the *)
(* query term of at least one match the candidate's cache holds when its   *)
(* matches are consumed: the 'observed' flags agree with the final cache.  *)
(***************************************************************************)
C26_AllEmitsWhenCacheCoversTerms ==
    set_interpretation = "ALL"
        => \A i \in DOMAIN candidate_log :
              /\ Range(query_terms) \subseteq candidate_log[i].cached_terms
                    => candidate_log[i].emitted
              /\ candidate_log[i].all_seen
                    <=> Range(query_terms) \subseteq candidate_log[i].cached_terms

(***************************************************************************)
(* C27.  The message apply_attribute_constraints returns is referentially  *)
(* closed: both endpoints of every remaining edge are remaining nodes,     *)
(* every id bound in a remaining result's node_bindings is a remaining     *)
(* node and every id bound in its edge_bindings a remaining edge, and no   *)
(* remaining result has an empty binding list.                             *)
(***************************************************************************)
C27_FilteredMessageIsClosed ==
    pc = "done" =>
        LET kg == message.knowledge_graph
            results == message.results
        IN /\ \A e \in DOMAIN kg.edges :
                 /\ kg.edges[e].subject \in DOMAIN kg.nodes
                 /\ kg.edges[e].object \in DOMAIN kg.nodes
           /\ \A i \in DOMAIN results :
                 /\ \A q \in DOMAIN results[i].node_bindings :
                       /\ results[i].node_bindings[q] # << >>
                       /\ BoundIds(results[i].node_bindings[q]) \subseteq DOMAIN kg.nodes
                 /\ \A a \in DOMAIN results[i].analyses :
                       \A q \in DOMAIN results[i].analyses[a].edge_bindings :
                           /\ results[i].analyses[a].edge_bindings[q] # << >>
                           /\ BoundIds(results[i].analyses[a].edge_bindings[q])
                                 \subseteq DOMAIN kg.edges

\* the filter removed edges and a result, and kept a result and edges
C27_PartlyFiltered ==
    /\ pc = "done"
    /\ HasConstraints(message)
    /\ Len(message.results) >= 1
    /\ Len(message.results) < Len(Results)
    /\ DOMAIN message.knowledge_graph.edges # {}
    /\ DOMAIN message.knowledge_graph.edges # DOMAIN KGEdges

(***************************************************************************)
(* Vocabulary of the constraint properties.                                *)
(***************************************************************************)
\* the attributes that carry the constraint's id
AttributesOf(constraint, db_attributes) ==
    { i \in DOMAIN db_attributes :
        db_attributes[i].attribute_type_id = constraint.id }

\* the operator's verdict on one value, inverted for a negated constraint
Satisfies(constraint, db_value) ==
    operator_map(constraint.operator, constraint.value, db_value)
        # constraint.negated

(***************************************************************************)
(* C28.  check_attributes returns true exactly when, for every constraint, *)
(* at least one attribute has the constraint's id as its attribute_type_id *)
(* and every attribute with that id satisfies the constraint's operator,   *)
(* the outcome inverted for a negated constraint; a constraint whose id    *)
(* no attribute carries fails, negated or not.                             *)
(***************************************************************************)
C28_CheckAttributes ==
    checked.returned # << >> =>
        LET constraints == checked.attribute_constraints
            attributes == checked.db_attributes
        IN /\ checked.returned[1]
                 <=> \A c \in DOMAIN constraints :
                        /\ AttributesOf(constraints[c], attributes) # {}
                        /\ \A i \in AttributesOf(constraints[c], attributes) :
                              Satisfies(constraints[c], attributes[i].value)
           /\ (\E c \in DOMAIN constraints :
                  AttributesOf(constraints[c], attributes) = {})
                 => ~checked.returned[1]

\* a negated constraint no attribute carries the id of, beside a constraint
\* that its attribute satisfies: the check has returned false
C28_NegatedUnmatchedFails ==
    /\ checked.returned = << FALSE >>
    /\ Len(checked.attribute_constraints) = 2
    /\ Len(checked.db_attributes) = 1
    /\ checked.attribute_constraints[1].negated
    /\ AttributesOf(checked.attribute_constraints[1], checked.db_attributes) = {}
    /\ AttributesOf(checked.attribute_constraints[2], checked.db_attributes) = { 1 }
    /\ Satisfies(checked.attribute_constraints[2], checked.db_attributes[1].value)

(***************************************************************************)
(* C29.  A greater_than constraint with the number c, not negated, is      *)
(* satisfied by an attribute of value v exactly when v > c, and a          *)
(* less_than constraint exactly when v < c: the attribute's value is the   *)
(* left operand.                                                           *)
(***************************************************************************)
C29_AttributeValueIsLeftOperand ==
    (/\ checked.returned # << >>
     /\ Len(checked.attribute_constraints) = 1
     /\ Len(checked.db_attributes) = 1
     /\ ~checked.attribute_constraints[1].negated
     /\ checked.attribute_constraints[1].value.type = "number"
     /\ checked.db_attributes[1].value.type = "number"
     /\ AttributesOf(checked.attribute_constraints[1], checked.db_attributes) = { 1 })
        => LET c == checked.attribute_constraints[1].value.v
               v == checked.db_attributes[1].value.v
           IN checked.returned[1]
                 <=> IF checked.attribute_constraints[1].operator = ">"
                     THEN v > c
                     ELSE v < c
=============================================================================
